---------------------------- MODULE Spec2Model ----------------------------
(***************************************************************************)
(* The exchange ledger and request lifecycle of the CrescitaDigitale bot   *)
(* (src/bot.py): the SQLite tables users, interactions, user_interactions  *)
(* and screenshots, the per-user conversation state and user_data, and the *)
(* handlers that change them.                                              *)
(*                                                                         *)
(* Spec   : one handler runs at a time, from its first statement to its    *)
(*          last (the dispatcher awaits each handler before the next       *)
(*          update, and no handler awaits between its store statements).   *)
(*          A handler that main() gives to a ConversationHandler runs when *)
(*          that ConversationHandler routes an update to it.               *)
(* SpecTx : the store statements of complete_interaction and of            *)
(*          handle_quantity are separate steps of concurrent tasks over    *)
(*          the shared database file, each sqlite3 connection committing   *)
(*          where the code calls commit(); a task may be killed between    *)
(*          any two statements.                                            *)
(***************************************************************************)
EXTENDS Integers, Sequences, FiniteSets

VARIABLES
    users,              \* table users: telegram_id -> row
    interactions,       \* table interactions: row id (AUTOINCREMENT) = index
    user_interactions,  \* table user_interactions: row id = index
    screenshots,        \* table screenshots: set of rows, id is the key
    user_data,          \* context.user_data of each telegram id
    conversations,      \* state of each ConversationHandler for each id
    buttons,            \* inline buttons each id has been sent
    coin_log,           \* history: the /admin_coin adjustments applied
    flow_requests,      \* history: the row ids handle_quantity inserted
    refused,            \* history: the (sender, id) pairs answered "Hai gia
                        \* completato questa interazione!"
    tasks,              \* SpecTx: the running tasks and their connections
    purchase_forms,     \* table purchase_forms: row id = index
    tickets,            \* table tickets: row id = index
    call                \* SpecCalc: one call of a function, and its result

vars == <<users, interactions, user_interactions, screenshots, user_data,
          conversations, buttons, coin_log, flow_requests, refused, tasks, purchase_forms, call, tickets>>

----------------------------------------------------------------------------
(* Bounds of the model *)

\* rows the interactions table may hold
MaxRequests == 1
\* largest quantity a sender types or an admin passes
MaxQuantity == 2
\* /admin_coin commands in one behaviour
MaxAdjust == 1
\* rows the screenshots table may hold
MaxScreenshots == 2
\* conversations that are past their entry point at the same time
MaxSessions == 1
\* handles one id registers with /profilo
MaxProfiles == 1
\* concurrent tasks of SpecTx
MaxTasks == 2
\* largest cost_per_action of SpecCalc
MaxCost == 40
\* rows the purchase_forms table may hold
MaxForms == 1
\* rows the tickets table may hold
MaxTickets == 1
\* largest number of coins a sender asks to buy
MaxCoins == 1002
\* largest LIMIT given to get_available_interactions beside the 5 of
\* handle_start_earning
MaxLimit == 1

\* the telegram ids that send updates; 1 is the admin
TelegramIds == {1, 2, 3}

----------------------------------------------------------------------------
(* Program constants *)

\* config.ADMIN_IDS: two ids, the second sends no update here
ADMIN_IDS == <<1, 4>>

NULL == "NULL"

\* coin_balance INTEGER DEFAULT 10
DEFAULT_COIN_BALANCE == 10

ACTION_COSTS ==
    [ like |-> 1, follow |-> 5, commento |-> 6, condivisione_story |-> 10,
      visualizzazione_reel |-> 5, salvataggio |-> 5, invio_chat |-> 1 ]

\* if interaction['cost_per_action'] >= 5: the screenshot button
SCREENSHOT_THRESHOLD == 5

\* ConversationHandler.END
END == "END"

WAITING_POST_LINK == "WAITING_POST_LINK"
WAITING_QUANTITY == "WAITING_QUANTITY"
WAITING_SCREENSHOT == "WAITING_SCREENSHOT"
WAITING_PURCHASE_NAME == "WAITING_PURCHASE_NAME"
WAITING_PURCHASE_PHONE == "WAITING_PURCHASE_PHONE"
WAITING_PURCHASE_COINS == "WAITING_PURCHASE_COINS"

----------------------------------------------------------------------------
(* Variants of the program's definitions: each differs from the definition *)
(* it is named after in one point, and a property that rests on that       *)
(* definition fails when the variant takes its place.                      *)

\* the duplicate check with its two columns exchanged
already_completed_swapped(UI, user_id, interaction_id) ==
    \E k \in DOMAIN UI :
        UI[k].user_id = interaction_id /\ UI[k].interaction_id = user_id

\* the balance check with <= for <
insufficient_balance_inclusive(coin_balance, total_cost) ==
    coin_balance <= total_cost

\* the total cost with + for *
total_cost_of_sum(quantity, cost_per_action) == quantity + cost_per_action

\* the credit of a completion applied twice
credit_earnings_to_all(U, user_id, earnings) ==
    IF user_id \in DOMAIN U
    THEN [x \in DOMAIN U |-> [U[x] EXCEPT !.coin_balance = @ + earnings]]
    ELSE U

credit_earnings_twice(U, user_id, earnings) ==
    IF user_id \in DOMAIN U
    THEN [U EXCEPT ![user_id].coin_balance = @ + earnings + earnings]
    ELSE U

\* the duplicate check with the row id for the interaction id
already_completed_by_row_id(UI, user_id, interaction_id) ==
    \E k \in DOMAIN UI : k = interaction_id /\ UI[k].user_id = user_id

\* the SELECT of the list with <= for < on completed_count
available_inclusive(U, I, user_id) ==
    { i \in DOMAIN I :
        /\ I[i].requester_id \in DOMAIN U
        /\ I[i].requester_id # user_id
        /\ I[i].status = "active"
        /\ I[i].completed_count <= I[i].quantity }

\* the price tiers with < for <=
price_exclusive(coins_requested) ==
    IF coins_requested < 100 THEN 500
    ELSE IF coins_requested < 250 THEN 1000
    ELSE IF coins_requested < 500 THEN 1800
    ELSE IF coins_requested < 1000 THEN 3000
    ELSE coins_requested * 3

\* only the keys of the purchase form are removed from user_data
clear_purchase_keys(UD, u) ==
    [UD EXCEPT ![u].purchase_name = "NULL", ![u].purchase_phone = "NULL"]

\* the screenshots row with its user_id and interaction_id exchanged
screenshot_row_swapped(screenshot_id, user_id, interaction_id) ==
    [ id |-> screenshot_id, user_id |-> interaction_id,
      interaction_id |-> user_id ]

\* the earnings rounded up instead of down
calculate_earnings_ceiling(cost, profile_type) ==
    IF profile_type = "primary" THEN (cost + 3) \div 4 ELSE (cost + 7) \div 8

----------------------------------------------------------------------------
(* Pure functions *)

\* int(x) of a float product: truncation toward zero of n / d
TruncDiv(n, d) == IF n >= 0 THEN n \div d ELSE -((-n) \div d)

calculate_earnings(cost, profile_type) ==
    IF profile_type = "primary" THEN TruncDiv(cost, 4) ELSE TruncDiv(cost, 8)

is_admin(user_id) == \E i \in DOMAIN ADMIN_IDS : ADMIN_IDS[i] = user_id

\* Text a sender types: a tuple of characters.
DigitChars == <<"0", "1", "2", "3", "4", "5", "6", "7", "8", "9">>

IsDigit(c) == \E i \in DOMAIN DigitChars : DigitChars[i] = c

DigitVal(c) == (CHOOSE i \in DOMAIN DigitChars : DigitChars[i] = c) - 1

RECURSIVE DigitsVal(_)
DigitsVal(ds) ==
    IF ds = <<>> THEN 0
    ELSE 10 * DigitsVal(SubSeq(ds, 1, Len(ds) - 1)) + DigitVal(ds[Len(ds)])

\* the characters of text after an optional sign
Unsigned(text) ==
    IF text # <<>> /\ Head(text) \in {"-", "+"} THEN Tail(text) ELSE text

\* int(text) raises ValueError unless text is an optional sign and digits
IsIntText(text) ==
    /\ Unsigned(text) # <<>>
    /\ \A i \in DOMAIN Unsigned(text) : IsDigit(Unsigned(text)[i])

\* variant of int(text): the sign is dropped
ParseInt_unsigned(text) == DigitsVal(Unsigned(text))

\* int(text)
ParseInt(text) ==
    IF text # <<>> /\ Head(text) = "-" THEN -DigitsVal(Unsigned(text))
    ELSE DigitsVal(Unsigned(text))

\* the decimal numeral of n >= 0, as a sender types it
RECURSIVE IntText(_)
IntText(n) ==
    IF n < 10 THEN <<DigitChars[n + 1]>>
    ELSE IntText(n \div 10) \o <<DigitChars[(n % 10) + 1]>>

\* the price of purchase_coins_handler, in cents: 5.0, 10.0, 18.0, 30.0
\* euro by tier and coins_requested * 0.03 euro above the last tier
price(coins_requested) ==
    IF coins_requested <= 100 THEN 500
    ELSE IF coins_requested <= 250 THEN 1000
    ELSE IF coins_requested <= 500 THEN 1800
    ELSE IF coins_requested <= 1000 THEN 3000
    ELSE coins_requested * 3

\* ' '.join(args): the words with a space between two of them
RECURSIVE join(_)
join(args) ==
    IF Len(args) <= 1 THEN args
    ELSE <<Head(args), " ">> \o join(Tail(args))

\* variant of is_valid_instagram_link: any host passes
is_valid_instagram_link_any_host(link) ==
    /\ Len(link) >= 7
    /\ link[1] \in {"http://", "https://"}
    /\ link[2] \in {"", "www."}
    /\ link[4] = "/"
    /\ link[5] \in {"p", "reel", "tv"}
    /\ link[6] = "/"
    /\ link[7] # ""

\* A link, cut where the pattern of is_valid_instagram_link cuts it:
\* <<scheme, www, host, "/", kind, "/", shortcode>>.
is_valid_instagram_link(link) ==
    /\ Len(link) >= 7
    /\ link[1] \in {"http://", "https://"}
    /\ link[2] \in {"", "www."}
    /\ link[3] \in {"instagram.com", "instagr.am"}
    /\ link[4] = "/"
    /\ link[5] \in {"p", "reel", "tv"}
    /\ link[6] = "/"
    /\ link[7] # ""

\* callback_data "interaction_type_<key>" cut at "_" by data.split('_'):
\* the tokens after "interaction", "type"
KeyTokens ==
    [ like |-> <<"like">>, follow |-> <<"follow">>, commento |-> <<"commento">>,
      condivisione_story |-> <<"condivisione", "story">>,
      visualizzazione_reel |-> <<"visualizzazione", "reel">>,
      salvataggio |-> <<"salvataggio">>, invio_chat |-> <<"invio", "chat">> ]

\* query.data.split('_') of the button of action key k
SplitData(k) == <<"interaction", "type">> \o KeyTokens[k]

----------------------------------------------------------------------------
(* DatabaseManager: each operator is the effect of one method on the       *)
(* tables it is given.                                                     *)

\* INSERT INTO users (telegram_id): the column defaults of the users table
NewUser ==
    [ coin_balance |-> DEFAULT_COIN_BALANCE, instagram_username |-> NULL,
      secondary_profile_1 |-> NULL, secondary_profile_2 |-> NULL,
      secondary_profile_1_verified |-> FALSE,
      secondary_profile_2_verified |-> FALSE ]

\* get_user(telegram_id) returns a row, not None
has_user(U, telegram_id) == telegram_id \in DOMAIN U

\* variant of create_user: INSERT OR REPLACE, the row of a known id is made
\* anew
create_user_replacing(U, telegram_id) ==
    [x \in DOMAIN U \cup {telegram_id} |->
        IF x = telegram_id THEN NewUser ELSE U[x]]

\* the value create_user returns: True after the INSERT, False after the
\* IntegrityError of a known id
create_user_returns(U, telegram_id) == ~has_user(U, telegram_id)

\* the INSERT fails with IntegrityError when the id is already a key
create_user(U, telegram_id) ==
    IF has_user(U, telegram_id) THEN U
    ELSE [x \in DOMAIN U \cup {telegram_id} |->
             IF x = telegram_id THEN NewUser ELSE U[x]]

update_user_balance(U, telegram_id, amount) ==
    IF has_user(U, telegram_id)
    THEN [U EXCEPT ![telegram_id].coin_balance = @ + amount]
    ELSE U

set_user_profile(U, telegram_id, username, profile_type) ==
    IF ~has_user(U, telegram_id) THEN U
    ELSE CASE profile_type = "primary" ->
                  [U EXCEPT ![telegram_id].instagram_username = username]
           [] profile_type = "secondary_1" ->
                  [U EXCEPT ![telegram_id].secondary_profile_1 = username]
           [] profile_type = "secondary_2" ->
                  [U EXCEPT ![telegram_id].secondary_profile_2 = username]
           [] OTHER -> U

\* variant of the SELECT: the rows user_id has completed are left out
available_not_completed(U, I, user_id) ==
    { i \in DOMAIN I :
        /\ has_user(U, I[i].requester_id)
        /\ I[i].requester_id # user_id
        /\ I[i].status = "active"
        /\ I[i].completed_count < I[i].quantity
        /\ \A k \in DOMAIN user_interactions :
              ~(/\ user_interactions[k].user_id = user_id
                /\ user_interactions[k].interaction_id = i) }

\* the rows the SELECT of get_available_interactions matches
available(U, I, user_id) ==
    { i \in DOMAIN I :
        /\ has_user(U, I[i].requester_id)
        /\ I[i].requester_id # user_id
        /\ I[i].status = "active"
        /\ I[i].completed_count < I[i].quantity }

Min(a, b) == IF a <= b THEN a ELSE b

\* ORDER BY RANDOM() LIMIT ?: the sets of row ids one call may return
get_available_interactions(U, I, user_id, limit) ==
    { S \in SUBSET available(U, I, user_id) :
        Cardinality(S) = Min(limit, Cardinality(available(U, I, user_id))) }

\* INSERT INTO tickets (user_id, message): status defaults to 'open'
create_ticket(T, user_id, message) ==
    Append(T, [ user_id |-> user_id, message |-> message, status |-> "open" ])

\* INSERT INTO purchase_forms: status defaults to 'pending'
create_purchase_form(F, user_id, name, phone, coins_requested, amount_euro) ==
    Append(F, [ user_id |-> user_id, name |-> name, phone |-> phone,
                coins_requested |-> coins_requested,
                amount_euro |-> amount_euro, status |-> "pending" ])

\* INSERT INTO screenshots (id, user_id, file_path, interaction_id)
screenshot_row(screenshot_id, user_id, interaction_id) ==
    [ id |-> screenshot_id, user_id |-> user_id,
      interaction_id |-> interaction_id ]

\* total_cost = quantity * cost_per_action
total_cost_of(quantity, cost_per_action) == quantity * cost_per_action

create_interaction_request(I, user_id, post_link, action_type, quantity, cost_per_action) ==
    Append(I, [ requester_id |-> user_id, post_link |-> post_link,
                action_type |-> action_type, quantity |-> quantity,
                cost_per_action |-> cost_per_action,
                total_cost |-> total_cost_of(quantity, cost_per_action),
                completed_count |-> 0, status |-> "active" ])

\* SELECT id FROM user_interactions WHERE user_id = ? AND interaction_id = ?
already_completed(UI, user_id, interaction_id) ==
    \E k \in DOMAIN UI :
        UI[k].user_id = user_id /\ UI[k].interaction_id = interaction_id

\* variant of the INSERT: a row of the same request is replaced
insert_user_interaction_replacing(UI, user_id, interaction_id, earnings, profile_type, screenshot_id) ==
    LET row == [ user_id |-> user_id, interaction_id |-> interaction_id,
                 earnings |-> earnings, profile_type |-> profile_type,
                 screenshot_id |-> screenshot_id ]
        old == { k \in DOMAIN UI : UI[k].interaction_id = interaction_id }
    IN  IF old = {} THEN Append(UI, row)
        ELSE [UI EXCEPT ![CHOOSE k \in old : TRUE] = row]

\* INSERT INTO user_interactions
insert_user_interaction(UI, user_id, interaction_id, earnings, profile_type, screenshot_id) ==
    Append(UI, [ user_id |-> user_id, interaction_id |-> interaction_id,
                 earnings |-> earnings, profile_type |-> profile_type,
                 screenshot_id |-> screenshot_id ])

\* variant of the UPDATE: ... WHERE id = ? AND completed_count < quantity
count_completion_below_quantity(I, interaction_id) ==
    IF interaction_id \in DOMAIN I
       /\ I[interaction_id].completed_count < I[interaction_id].quantity
    THEN [I EXCEPT ![interaction_id].completed_count = @ + 1]
    ELSE I

\* UPDATE interactions SET completed_count = completed_count + 1 WHERE id = ?
count_completion(I, interaction_id) ==
    IF interaction_id \in DOMAIN I
    THEN [I EXCEPT ![interaction_id].completed_count = @ + 1]
    ELSE I

\* UPDATE users SET coin_balance = coin_balance + ? WHERE telegram_id = ?
credit_earnings(U, user_id, earnings) ==
    IF has_user(U, user_id)
    THEN [U EXCEPT ![user_id].coin_balance = @ + earnings]
    ELSE U

\* complete_interaction, run from its first statement to its commit
complete_interaction(user_id, interaction_id, earnings, profile_type, screenshot_id) ==
    IF already_completed(user_interactions, user_id, interaction_id)
    THEN /\ refused' = refused \cup {<<user_id, interaction_id>>}
         /\ UNCHANGED <<user_interactions, interactions, users>>
    ELSE /\ user_interactions' =
                insert_user_interaction(user_interactions, user_id,
                    interaction_id, earnings, profile_type, screenshot_id)
         /\ interactions' = count_completion(interactions, interaction_id)
         /\ users' = credit_earnings(users, user_id, earnings)
         /\ UNCHANGED refused

----------------------------------------------------------------------------
(* Inputs *)

GoodLink == <<"https://", "", "instagram.com", "/", "p", "/", "ABC123">>

BadLink == <<"https://", "", "example.com", "/", "p", "/", "ABC123">>

LinkTexts == { GoodLink, BadLink }

\* what a sender may type where a number is asked
NumberTexts ==
    { <<"a">>, <<>>, <<"0">>, <<"-", "1">> }
        \cup { <<DigitChars[n + 1]>> : n \in 1..MaxQuantity }

\* what a sender may type where the purchase form asks for coins: an
\* ill-formed text, zero, a negative number, every amount up to MaxCoins
CoinTexts ==
    { <<"a">>, <<>>, <<"0">>, <<"-", "1">> }
        \cup { IntText(n) : n \in 1..MaxCoins }

\* a name and a telephone number typed into the purchase form
PurchaseNames == { "Anna Rossi" }

PurchasePhones == { "+39 333 1234567" }

\* the words after /ticket
TicketArgs == { <<>>, <<"saldo", "sbagliato">> }

\* the arguments <link> <azione> <quantita> <coin> of /admin_richiesta: the
\* well-formed ones, and one ill-formed value of each argument
AdminRequestArgs ==
    { <<GoodLink, action, <<DigitChars[n + 1]>>, <<DigitChars[c + 1]>> >> :
        action \in {"like"}, n \in 1..MaxQuantity, c \in {4, 5} }
    \cup { <<BadLink, "like", <<"1">>, <<"1">> >>,
           <<GoodLink, "condivisione", <<"1">>, <<"1">> >>,
           <<GoodLink, "like", <<"x">>, <<"1">> >>,
           <<GoodLink, "like", <<"1">>, <<"x">> >> }


Usernames == {"anna"}

\* the interaction_type_<key> buttons pressed: one key of each price below
\* the screenshot threshold, at it and above it, and one key holding a "_"
PressedKeys == {"like", "follow", "commento", "condivisione_story"}

\* what the admin passes as <quantita> of /admin_coin
AdminAmounts == {-5, 5}

----------------------------------------------------------------------------
(* State *)

\* context.user_data with no key set; interaction ids start at 1
NoData ==
    [ interaction_type |-> NULL, post_link |-> <<>>, pending_interaction_id |-> 0,
      purchase_name |-> NULL, purchase_phone |-> NULL ]

\* no function is being called
NoCall == [ function |-> NULL ]

\* the interaction ids of the confirm_action_<id> and upload_screenshot_<id>
\* buttons an id has been sent
NoButtons == [ confirm_action |-> {}, upload_screenshot |-> {} ]

\* no ConversationHandler holds a state for the id
Idle == [ purchase |-> END, interaction |-> END, screenshot |-> END ]

\* a python value that tests false: None or ''
Falsy(v) == v = NULL \/ v = ""

Init ==
    /\ users = [x \in {} |-> NewUser]
    /\ interactions = <<>>
    /\ user_interactions = <<>>
    /\ screenshots = {}
    /\ user_data = [u \in TelegramIds |-> NoData]
    /\ conversations = [u \in TelegramIds |-> Idle]
    /\ buttons = [u \in TelegramIds |-> NoButtons]
    /\ coin_log = <<>>
    /\ flow_requests = {}
    /\ refused = {}
    /\ tasks = <<>>
    /\ purchase_forms = <<>>
    /\ tickets = <<>>
    /\ call = NoCall

store == <<users, interactions, user_interactions, screenshots>>

\* every table of the database
tables == <<users, interactions, user_interactions, screenshots,
            purchase_forms, tickets>>

\* context.user_data.clear()
clear(UD, u) == [UD EXCEPT ![u] = NoData]

----------------------------------------------------------------------------
(* Handlers, each run from its first statement to its return *)

start_command(u) ==
    /\ users' = create_user(users, u)
    /\ UNCHANGED <<interactions, user_interactions, screenshots, user_data,
                   conversations, buttons, coin_log, flow_requests, refused, tasks, purchase_forms, call, tickets>>

\* the slot profile_command picks from the row read before create_user
profile_slot(U, u) ==
    IF has_user(U, u) /\ ~Falsy(U[u].instagram_username)
    THEN IF Falsy(U[u].secondary_profile_1) THEN "secondary_1"
         ELSE IF Falsy(U[u].secondary_profile_2) THEN "secondary_2"
         ELSE "none"
    ELSE "primary"

\* handles the id has registered
Profiles(U, u) ==
    IF ~has_user(U, u) THEN 0
    ELSE Cardinality({ c \in {"instagram_username", "secondary_profile_1",
                              "secondary_profile_2"} : U[u][c] # NULL })

profile_command(u, username) ==
    /\ Profiles(users, u) < MaxProfiles
    /\ users' = IF profile_slot(users, u) = "none" THEN users
                ELSE set_user_profile(create_user(users, u), u, username,
                                      profile_slot(users, u))
    /\ UNCHANGED <<interactions, user_interactions, screenshots, user_data,
                   conversations, buttons, coin_log, flow_requests, refused, tasks, purchase_forms, call, tickets>>

\* the list of do_action_<id> buttons is part of the message, not of the state
handle_start_earning(u) ==
    /\ users' = create_user(users, u)
    /\ UNCHANGED <<interactions, user_interactions, screenshots, user_data,
                   conversations, buttons, coin_log, flow_requests, refused, tasks, purchase_forms, call, tickets>>

\* the rows of I as they were before any completion of them
uncompleted(I) == [i \in DOMAIN I |-> [I[i] EXCEPT !.completed_count = 0]]

\* a do_action_<id> button is pressed in a list handle_start_earning has
\* sent to u, now or earlier: no row and no user is ever removed and
\* completed_count only grows, so the ids of those lists are the ids of a
\* list taken over the rows before their completions
handle_do_action(u, interaction_id) ==
    /\ has_user(users, u)
    /\ \E S \in get_available_interactions(users, uncompleted(interactions),
                                            u, 5) :
          interaction_id \in S
    /\ buttons' =
         IF ~(/\ interaction_id \in DOMAIN interactions
              /\ has_user(users, interactions[interaction_id].requester_id))
         THEN buttons
         ELSE IF interactions[interaction_id].cost_per_action
                    >= SCREENSHOT_THRESHOLD
         THEN [buttons EXCEPT ![u].upload_screenshot = @ \cup {interaction_id}]
         ELSE [buttons EXCEPT ![u].confirm_action = @ \cup {interaction_id}]
    /\ UNCHANGED <<users, interactions, user_interactions, screenshots,
                   user_data, conversations, coin_log, flow_requests, refused, tasks, purchase_forms, call, tickets>>

\* handle_receive_interactions sends the interaction_type_<key> buttons
sends_interaction_types(U, u) ==
    has_user(U, u) /\ ~Falsy(U[u].instagram_username)

handle_receive_interactions(u) ==
    /\ UNCHANGED vars

\* the body of handle_confirm_action: it reads the id in the callback data
\* and completes, whatever message the query came from
confirm_action_callback(u, interaction_id) ==
    /\ IF interaction_id \notin DOMAIN interactions
       THEN UNCHANGED <<user_interactions, interactions, users, refused>>
       ELSE complete_interaction(u, interaction_id,
                calculate_earnings(interactions[interaction_id].cost_per_action,
                                   "primary"),
                "primary", <<>>)
    /\ UNCHANGED <<screenshots, user_data, conversations, buttons, coin_log,
                   flow_requests, tasks, purchase_forms, call, tickets>>

\* a confirm_action_<id> button of a message handle_do_action has sent to u
\* is pressed
handle_confirm_action(u, interaction_id) ==
    /\ interaction_id \in buttons[u].confirm_action
    /\ confirm_action_callback(u, interaction_id)

\* conversations past their entry point
Sessions ==
    Cardinality({ <<u, c>> \in TelegramIds \X {"purchase", "interaction", "screenshot"} :
                    conversations[u][c] # END })

\* entry point of interaction_conv_handler; the button is one of a keyboard
\* handle_receive_interactions sends (rows and usernames are never removed)
handle_interaction_type_selection(u, k) ==
    /\ sends_interaction_types(users, u)
    /\ conversations[u].interaction = END
    /\ user_data' = [user_data EXCEPT ![u].interaction_type = SplitData(k)[3]]
    /\ conversations' = [conversations EXCEPT ![u].interaction = WAITING_POST_LINK]
    /\ UNCHANGED <<users, interactions, user_interactions, screenshots,
                   buttons, coin_log, flow_requests, refused, tasks, purchase_forms, call, tickets>>

\* a text message reaches the first ConversationHandler that holds a state
\* for the sender: purchase_conv_handler, then interaction_conv_handler
text_to_interaction(u, state) ==
    /\ conversations[u].purchase = END
    /\ conversations[u].interaction = state

handle_post_link(u, link) ==
    /\ text_to_interaction(u, WAITING_POST_LINK)
    /\ IF ~is_valid_instagram_link(link)
       THEN UNCHANGED <<user_data, conversations>>
       ELSE /\ user_data' = [user_data EXCEPT ![u].post_link = link]
            \* ACTION_COSTS[action_type] raises KeyError: the state is kept
            /\ conversations' =
                 IF user_data[u].interaction_type \in DOMAIN ACTION_COSTS
                 THEN [conversations EXCEPT ![u].interaction = WAITING_QUANTITY]
                 ELSE conversations
    /\ UNCHANGED <<users, interactions, user_interactions, screenshots,
                   buttons, coin_log, flow_requests, refused, tasks, purchase_forms, call, tickets>>

\* if user['coin_balance'] < total_cost
insufficient_balance(coin_balance, total_cost) == coin_balance < total_cost

handle_quantity(u, text) ==
    /\ text_to_interaction(u, WAITING_QUANTITY)
    /\ IF \/ ~IsIntText(text)
          \/ ParseInt(text) <= 0
          \* user['coin_balance'], user_data['interaction_type'] and
          \* ACTION_COSTS[action_type] raise before any statement changes state
          \/ ~has_user(users, u)
          \/ user_data[u].interaction_type \notin DOMAIN ACTION_COSTS
       THEN UNCHANGED <<users, interactions, user_data, conversations,
                        flow_requests>>
       ELSE LET quantity == ParseInt(text)
                action_type == user_data[u].interaction_type
                cost_per_action == ACTION_COSTS[action_type]
                total_cost == quantity * cost_per_action
            IN  IF insufficient_balance(users[u].coin_balance, total_cost)
                THEN /\ user_data' = [user_data EXCEPT ![u] = NoData]
                     /\ conversations' = [conversations EXCEPT ![u].interaction = END]
                     /\ UNCHANGED <<users, interactions, flow_requests>>
                ELSE /\ users' = update_user_balance(users, u, -total_cost)
                     /\ IF user_data[u].post_link = <<>>
                        \* user_data['post_link'] raises after the debit
                        THEN UNCHANGED <<interactions, user_data, conversations,
                                         flow_requests>>
                        ELSE /\ Len(interactions) < MaxRequests
                             /\ interactions' =
                                  create_interaction_request(interactions, u,
                                      user_data[u].post_link, action_type,
                                      quantity, cost_per_action)
                             /\ flow_requests' =
                                  flow_requests \cup {Len(interactions) + 1}
                             /\ user_data' = [user_data EXCEPT ![u] = NoData]
                             /\ conversations' =
                                  [conversations EXCEPT ![u].interaction = END]
    /\ UNCHANGED <<user_interactions, screenshots, buttons, coin_log, refused,
                   tasks, purchase_forms, call, tickets>>

\* entry point of screenshot_conv_handler
handle_upload_screenshot(u, interaction_id) ==
    /\ interaction_id \in buttons[u].upload_screenshot
    /\ conversations[u].screenshot = END
    /\ user_data' = [user_data EXCEPT ![u].pending_interaction_id = interaction_id]
    /\ conversations' = [conversations EXCEPT ![u].screenshot = WAITING_SCREENSHOT]
    /\ UNCHANGED <<users, interactions, user_interactions, screenshots,
                   buttons, coin_log, flow_requests, refused, tasks, purchase_forms, call, tickets>>

\* f"{user_id}_{interaction_id}_{now}": the time of the upload is the number
\* of earlier uploads of the same sender for the same interaction
new_screenshot_id(user_id, interaction_id) ==
    <<user_id, interaction_id,
      Cardinality({ sh \in screenshots : /\ sh.user_id = user_id
                                         /\ sh.interaction_id = interaction_id })>>

\* a photo sent while screenshot_conv_handler waits for one
handle_screenshot_upload(u) ==
    /\ conversations[u].screenshot = WAITING_SCREENSHOT
    /\ LET interaction_id == user_data[u].pending_interaction_id
           screenshot_id == new_screenshot_id(u, interaction_id)
       IN  IF interaction_id = 0
           THEN UNCHANGED <<screenshots, user_interactions, interactions, users,
                            refused>>
           ELSE /\ Cardinality(screenshots) < MaxScreenshots
                /\ screenshots' = screenshots \cup
                       { screenshot_row(screenshot_id, u, interaction_id) }
                /\ IF interaction_id \notin DOMAIN interactions
                   THEN UNCHANGED <<user_interactions, interactions, users,
                                    refused>>
                   ELSE complete_interaction(u, interaction_id,
                            calculate_earnings(
                                interactions[interaction_id].cost_per_action,
                                "primary"),
                            "primary", screenshot_id)
    /\ user_data' = [user_data EXCEPT ![u] = NoData]
    /\ conversations' = [conversations EXCEPT ![u].screenshot = END]
    /\ UNCHANGED <<buttons, coin_log, flow_requests, tasks, purchase_forms, call, tickets>>

\* variant of /cancel: the screenshots of the sender are deleted with the
\* conversation
cancel_conversation_deleting(u) ==
    /\ conversations[u] # Idle
    /\ user_data' = [user_data EXCEPT ![u] = NoData]
    /\ conversations' =
         [conversations EXCEPT ![u] =
            IF @.purchase # END THEN [@ EXCEPT !.purchase = END]
            ELSE IF @.interaction # END THEN [@ EXCEPT !.interaction = END]
            ELSE [@ EXCEPT !.screenshot = END]]
    /\ screenshots' = { sh \in screenshots : sh.user_id # u }
    /\ UNCHANGED <<users, interactions, user_interactions, buttons, coin_log,
                   flow_requests, refused, tasks, purchase_forms, call,
                   tickets>>

\* variant of /cancel: the user_data of every id is cleared
cancel_conversation_of_all(u) ==
    /\ conversations[u] # Idle
    /\ user_data' = [v \in TelegramIds |-> NoData]
    /\ conversations' =
         [conversations EXCEPT ![u] =
            IF @.purchase # END THEN [@ EXCEPT !.purchase = END]
            ELSE IF @.interaction # END THEN [@ EXCEPT !.interaction = END]
            ELSE [@ EXCEPT !.screenshot = END]]
    /\ UNCHANGED <<users, interactions, user_interactions, screenshots,
                   buttons, coin_log, flow_requests, refused, tasks,
                   purchase_forms, call, tickets>>

\* /cancel: the fallback of the first ConversationHandler, in the order
\* main() adds them, that holds a state for the sender
cancel_conversation(u) ==
    /\ conversations[u] # Idle
    /\ user_data' = [user_data EXCEPT ![u] = NoData]
    /\ conversations' =
         [conversations EXCEPT ![u] =
            IF @.purchase # END THEN [@ EXCEPT !.purchase = END]
            ELSE IF @.interaction # END THEN [@ EXCEPT !.interaction = END]
            ELSE [@ EXCEPT !.screenshot = END]]
    /\ UNCHANGED <<users, interactions, user_interactions, screenshots,
                   buttons, coin_log, flow_requests, refused, tasks, purchase_forms, call, tickets>>

admin_request_command(a, args) ==
    LET link == args[1]
        action == args[2]
        quantity_text == args[3]
        cost_text == args[4]
    IN
    /\ is_admin(a)
    /\ interactions' =
         IF /\ IsIntText(quantity_text)
            /\ IsIntText(cost_text)
            /\ is_valid_instagram_link(link)
            /\ action \in DOMAIN ACTION_COSTS
         THEN create_interaction_request(interactions, ADMIN_IDS[1], link,
                  action, ParseInt(quantity_text), ParseInt(cost_text))
         ELSE interactions
    /\ Len(interactions') <= MaxRequests
    /\ UNCHANGED <<users, user_interactions, screenshots, user_data,
                   conversations, buttons, coin_log, flow_requests, refused, tasks, purchase_forms, call, tickets>>

admin_coin_command(a, target_user_id, amount) ==
    /\ is_admin(a)
    /\ Len(coin_log) < MaxAdjust
    /\ IF has_user(users, target_user_id)
       THEN /\ users' = update_user_balance(users, target_user_id, amount)
            /\ coin_log' = Append(coin_log, [ user_id |-> target_user_id,
                                              amount |-> amount ])
       ELSE UNCHANGED <<users, coin_log>>
    /\ UNCHANGED <<interactions, user_interactions, screenshots, user_data,
                   conversations, buttons, flow_requests, refused, tasks, purchase_forms, call, tickets>>

Next ==
    \/ \E u \in TelegramIds : start_command(u)
    \/ \E u \in TelegramIds, username \in Usernames : profile_command(u, username)
    \/ \E u \in TelegramIds : handle_start_earning(u)
    \/ \E u \in TelegramIds, i \in 1..MaxRequests : handle_do_action(u, i)
    \/ \E u \in TelegramIds : handle_receive_interactions(u)
    \/ \E u \in TelegramIds, i \in 1..MaxRequests : handle_confirm_action(u, i)
    \/ \E u \in TelegramIds, k \in PressedKeys :
          Sessions < MaxSessions /\ handle_interaction_type_selection(u, k)
    \/ \E u \in TelegramIds, link \in LinkTexts : handle_post_link(u, link)
    \/ \E u \in TelegramIds, text \in NumberTexts : handle_quantity(u, text)
    \/ \E u \in TelegramIds, i \in 1..MaxRequests :
          Sessions < MaxSessions /\ handle_upload_screenshot(u, i)
    \/ \E u \in TelegramIds : handle_screenshot_upload(u)
    \/ \E u \in TelegramIds : cancel_conversation(u)
    \/ \E a \in TelegramIds, args \in AdminRequestArgs :
          admin_request_command(a, args)
    \/ \E a \in TelegramIds, t \in TelegramIds, amount \in AdminAmounts :
          admin_coin_command(a, t, amount)

Spec == Init /\ [][Next]_vars

----------------------------------------------------------------------------
(* SpecTx: the store statements of concurrent handlers interleave.         *)
(* A task is one running handler with its sqlite3 connection. What a       *)
(* connection has written and not committed is seen by no other            *)
(* connection, and is dropped when the task is killed; while it holds such *)
(* writes, no other connection writes.                                     *)

\* the statements a connection has executed and not committed
NoWrites == <<>>

\* a state Spec reaches: three users, 2 with a handle and at the quantity
\* step of a follow request, one /admin_richiesta row of quantity 1 and
\* cost 4, its confirm button sent to 2 and to 3
InitTx ==
    /\ users = [x \in TelegramIds |->
                  IF x = 2 THEN [NewUser EXCEPT !.instagram_username = "anna"]
                  ELSE NewUser]
    /\ interactions =
         create_interaction_request(<<>>, ADMIN_IDS[1], GoodLink, "like", 1, 4)
    /\ user_interactions = <<>>
    /\ screenshots = {}
    /\ user_data = [u \in TelegramIds |->
                      IF u = 2 THEN [NoData EXCEPT !.interaction_type = "follow",
                                                   !.post_link = GoodLink]
                      ELSE NoData]
    /\ conversations = [u \in TelegramIds |->
                          IF u = 2 THEN [Idle EXCEPT !.interaction = WAITING_QUANTITY]
                          ELSE Idle]
    /\ buttons = [u \in TelegramIds |->
                    IF u \in {2, 3} THEN [NoButtons EXCEPT !.confirm_action = {1}]
                    ELSE NoButtons]
    /\ coin_log = <<>>
    /\ flow_requests = {}
    /\ refused = {}
    /\ tasks = <<>>
    /\ purchase_forms = <<>>
    /\ tickets = <<>>
    /\ call = NoCall

\* a task that runs no more statements
Stopped(task) == task.pc \in {"returned", "killed", "raised"}

\* some other connection holds uncommitted writes
Locked(t) == \E o \in DOMAIN tasks : o # t /\ tasks[o].writes # NoWrites

\* handle_confirm_action up to the call of complete_interaction
begin_confirm_action(u, interaction_id) ==
    /\ Len(tasks) < MaxTasks
    /\ interaction_id \in buttons[u].confirm_action
    /\ interaction_id \in DOMAIN interactions
    /\ tasks' = Append(tasks,
         [ op |-> "complete_interaction", pc |-> "select", user_id |-> u,
           interaction_id |-> interaction_id,
           amount |-> calculate_earnings(
                          interactions[interaction_id].cost_per_action, "primary"),
           action_type |-> NULL, quantity |-> 0, debited |-> FALSE,
           writes |-> NoWrites, result |-> NULL ])
    /\ UNCHANGED <<users, interactions, user_interactions, screenshots,
                   user_data, conversations, buttons, coin_log, flow_requests,
                   refused>>
    /\ UNCHANGED <<purchase_forms, call, tickets>>

\* complete_interaction: the SELECT of the duplicate check and its return
select_completed(t) ==
    /\ tasks[t].op = "complete_interaction"
    /\ tasks[t].pc = "select"
    /\ IF already_completed(user_interactions, tasks[t].user_id,
                            tasks[t].interaction_id)
       THEN /\ tasks' = [tasks EXCEPT ![t].pc = "returned", ![t].result = "False"]
            /\ refused' = refused \cup
                            {<<tasks[t].user_id, tasks[t].interaction_id>>}
       ELSE /\ tasks' = [tasks EXCEPT ![t].pc = "insert"]
            /\ UNCHANGED refused
    /\ UNCHANGED <<users, interactions, user_interactions, screenshots,
                   user_data, conversations, buttons, coin_log, flow_requests>>
    /\ UNCHANGED <<purchase_forms, call, tickets>>

\* complete_interaction: the INSERT and the two UPDATEs, in their order
write_completion(t, pc, statement, next_pc) ==
    /\ tasks[t].op = "complete_interaction"
    /\ tasks[t].pc = pc
    /\ ~Locked(t)
    /\ tasks' = [tasks EXCEPT ![t].pc = next_pc,
                              ![t].writes = Append(@, statement)]
    /\ UNCHANGED <<users, interactions, user_interactions, screenshots,
                   user_data, conversations, buttons, coin_log, flow_requests,
                   refused>>
    /\ UNCHANGED <<purchase_forms, call, tickets>>

insert_completion(t) ==
    write_completion(t, "insert", "insert_user_interaction", "count")

update_completed_count(t) ==
    write_completion(t, "count", "count_completion", "credit")

update_coin_balance(t) ==
    write_completion(t, "credit", "credit_earnings", "commit")

\* the tables <<users, interactions, user_interactions>> after one written
\* statement of a complete_interaction task takes effect
written(task, statement, S) ==
    CASE statement = "insert_user_interaction" ->
             <<S[1], S[2],
               insert_user_interaction(S[3], task.user_id, task.interaction_id,
                                       task.amount, "primary", <<>>)>>
      [] statement = "count_completion" ->
             <<S[1], count_completion(S[2], task.interaction_id), S[3]>>
      [] statement = "credit_earnings" ->
             <<credit_earnings(S[1], task.user_id, task.amount), S[2], S[3]>>

RECURSIVE all_written(_, _, _)
all_written(task, statements, S) ==
    IF statements = <<>> THEN S
    ELSE all_written(task, Tail(statements),
                     written(task, Head(statements), S))

\* complete_interaction: conn.commit() and the return
commit_completion(t) ==
    /\ tasks[t].op = "complete_interaction"
    /\ tasks[t].pc = "commit"
    /\ LET S == all_written(tasks[t], tasks[t].writes,
                            <<users, interactions, user_interactions>>)
       IN  /\ users' = S[1]
           /\ interactions' = S[2]
           /\ user_interactions' = S[3]
    /\ tasks' = [tasks EXCEPT ![t].pc = "returned", ![t].result = "True",
                              ![t].writes = NoWrites]
    /\ UNCHANGED <<screenshots, user_data, conversations, buttons, coin_log,
                   flow_requests, refused>>
    /\ UNCHANGED <<purchase_forms, call, tickets>>

\* handle_quantity up to the balance check and its return
begin_quantity(u, text) ==
    /\ Len(tasks) < MaxTasks
    /\ text_to_interaction(u, WAITING_QUANTITY)
    /\ IF \/ ~IsIntText(text)
          \/ ParseInt(text) <= 0
          \/ ~has_user(users, u)
          \/ user_data[u].interaction_type \notin DOMAIN ACTION_COSTS
       THEN UNCHANGED <<tasks, user_data, conversations>>
       ELSE LET quantity == ParseInt(text)
                action_type == user_data[u].interaction_type
                cost_per_action == ACTION_COSTS[action_type]
                total_cost == quantity * cost_per_action
                task == [ op |-> "handle_quantity", pc |-> "debit",
                          user_id |-> u, interaction_id |-> 0,
                          amount |-> total_cost, action_type |-> action_type,
                          quantity |-> quantity, debited |-> FALSE,
                          writes |-> NoWrites, result |-> NULL ]
            IN  IF insufficient_balance(users[u].coin_balance, total_cost)
                THEN /\ tasks' = Append(tasks,
                            [task EXCEPT !.pc = "returned",
                                         !.result = "insufficient"])
                     /\ user_data' = [user_data EXCEPT ![u] = NoData]
                     /\ conversations' =
                          [conversations EXCEPT ![u].interaction = END]
                ELSE /\ tasks' = Append(tasks, task)
                     /\ UNCHANGED <<user_data, conversations>>
    /\ UNCHANGED <<users, interactions, user_interactions, screenshots,
                   buttons, coin_log, flow_requests, refused>>
    /\ UNCHANGED <<purchase_forms, call, tickets>>

\* handle_quantity: db.update_user_balance(user_id, -total_cost), its UPDATE
\* and its commit
debit_balance(t) ==
    /\ tasks[t].op = "handle_quantity"
    /\ tasks[t].pc = "debit"
    /\ ~Locked(t)
    /\ users' = update_user_balance(users, tasks[t].user_id, -tasks[t].amount)
    /\ tasks' = [tasks EXCEPT ![t].pc = "create", ![t].debited = TRUE]
    /\ UNCHANGED <<interactions, user_interactions, screenshots, user_data,
                   conversations, buttons, coin_log, flow_requests, refused>>
    /\ UNCHANGED <<purchase_forms, call, tickets>>

\* handle_quantity: post_link = context.user_data['post_link'], then
\* db.create_interaction_request(...), its INSERT and its commit, and the
\* rest of the handler
insert_request(t) ==
    /\ tasks[t].op = "handle_quantity"
    /\ tasks[t].pc = "create"
    /\ ~Locked(t)
    /\ LET u == tasks[t].user_id
       IN  IF user_data[u].post_link = <<>>
           THEN /\ tasks' = [tasks EXCEPT ![t].pc = "raised",
                                          ![t].result = "KeyError"]
                /\ UNCHANGED <<interactions, flow_requests, user_data,
                               conversations>>
           ELSE /\ interactions' =
                     create_interaction_request(interactions, u,
                         user_data[u].post_link, tasks[t].action_type,
                         tasks[t].quantity, ACTION_COSTS[tasks[t].action_type])
                /\ flow_requests' = flow_requests \cup {Len(interactions) + 1}
                /\ tasks' = [tasks EXCEPT ![t].pc = "returned",
                                          ![t].result = "created",
                                          ![t].interaction_id =
                                                Len(interactions) + 1]
                /\ user_data' = [user_data EXCEPT ![u] = NoData]
                /\ conversations' =
                     [conversations EXCEPT ![u].interaction = END]
    /\ UNCHANGED <<users, user_interactions, screenshots, buttons, coin_log,
                   refused>>
    /\ UNCHANGED <<purchase_forms, call, tickets>>

\* the process of a task dies, or a statement of it raises: the connection
\* closes and what it had not committed is rolled back
kill(t) ==
    /\ ~Stopped(tasks[t])
    /\ tasks' = [tasks EXCEPT ![t].pc = "killed", ![t].writes = NoWrites]
    /\ UNCHANGED <<users, interactions, user_interactions, screenshots,
                   user_data, conversations, buttons, coin_log, flow_requests,
                   refused>>
    /\ UNCHANGED <<purchase_forms, call, tickets>>

NextTx ==
    \/ \E u \in TelegramIds, i \in 1..MaxRequests : begin_confirm_action(u, i)
    \/ \E t \in DOMAIN tasks : select_completed(t)
    \/ \E t \in DOMAIN tasks : insert_completion(t)
    \/ \E t \in DOMAIN tasks : update_completed_count(t)
    \/ \E t \in DOMAIN tasks : update_coin_balance(t)
    \/ \E t \in DOMAIN tasks : commit_completion(t)
    \/ \E u \in TelegramIds, text \in NumberTexts : begin_quantity(u, text)
    \/ \E t \in DOMAIN tasks : debit_balance(t)
    \/ \E t \in DOMAIN tasks : insert_request(t)
    \/ \E t \in DOMAIN tasks : kill(t)

SpecTx == InitTx /\ [][NextTx]_vars

----------------------------------------------------------------------------
(* SpecContention: SpecTx, and a statement that writes while another       *)
(* connection holds uncommitted writes raises sqlite3.OperationalError     *)
(* ("database is locked") when the timeout of its connection runs out.     *)

\* no handler catches the exception and none runs its statements again
database_is_locked(t) ==
    /\ tasks[t].pc \in {"insert", "debit", "create"}
    /\ Locked(t)
    /\ tasks' = [tasks EXCEPT ![t].pc = "raised",
                              ![t].result = "OperationalError",
                              ![t].writes = NoWrites]
    /\ UNCHANGED <<users, interactions, user_interactions, screenshots,
                   user_data, conversations, buttons, coin_log, flow_requests,
                   refused, purchase_forms, call, tickets>>

NextContention ==
    \/ NextTx
    \/ \E t \in DOMAIN tasks : database_is_locked(t)

SpecContention == InitTx /\ [][NextContention]_vars

----------------------------------------------------------------------------
(* SpecCalc: calculate_earnings on every cost up to MaxCost and every      *)
(* profile type, and the completion of an interaction of that cost.        *)

\* the values of the column user_interactions.profile_type
ProfileTypes == {"primary", "secondary_1", "secondary_2"}

\* a state Spec reaches but for the cost: the three users registered, one
\* /admin_richiesta row of quantity 1 and of any cost, and a call of
\* calculate_earnings on that cost about to run
InitCalc ==
    /\ users = [x \in TelegramIds |-> NewUser]
    /\ \E cost \in 0..MaxCost, profile_type \in ProfileTypes :
          /\ interactions =
               create_interaction_request(<<>>, ADMIN_IDS[1], GoodLink, "like",
                                          1, cost)
          /\ call = [ function |-> "calculate_earnings", cost |-> cost,
                      profile_type |-> profile_type, returned |-> FALSE,
                      result |-> 0 ]
    /\ user_interactions = <<>>
    /\ screenshots = {}
    /\ user_data = [u \in TelegramIds |-> NoData]
    /\ conversations = [u \in TelegramIds |-> Idle]
    /\ buttons = [u \in TelegramIds |-> NoButtons]
    /\ coin_log = <<>>
    /\ flow_requests = {}
    /\ refused = {}
    /\ tasks = <<>>
    /\ purchase_forms = <<>>
    /\ tickets = <<>>

\* the call returns
calculate ==
    /\ call.function = "calculate_earnings"
    /\ ~call.returned
    /\ call' = [call EXCEPT !.returned = TRUE,
                            !.result = calculate_earnings(call.cost,
                                                          call.profile_type)]
    /\ UNCHANGED <<users, interactions, user_interactions, screenshots,
                   user_data, conversations, buttons, coin_log, flow_requests,
                   refused, tasks, purchase_forms, tickets>>

NextCalc ==
    \/ calculate
    \/ \E u \in TelegramIds, i \in 1..MaxRequests : handle_do_action(u, i)
    \/ \E u \in TelegramIds, i \in 1..MaxRequests : handle_confirm_action(u, i)
    \/ \E u \in TelegramIds, i \in 1..MaxRequests :
          Sessions < MaxSessions /\ handle_upload_screenshot(u, i)
    \/ \E u \in TelegramIds : handle_screenshot_upload(u)

SpecCalc == InitCalc /\ [][NextCalc]_vars

----------------------------------------------------------------------------
(* SpecCallback: a callback query carries the data its sender chooses; the *)
(* data need not be that of a button the bot has sent.                     *)

\* a state Spec reaches but for the cost: the three users registered and one
\* /admin_richiesta row of quantity 1 and of any cost
InitCallback ==
    /\ users = [x \in TelegramIds |-> NewUser]
    /\ \E cost \in 0..MaxCost :
          interactions =
             create_interaction_request(<<>>, ADMIN_IDS[1], GoodLink, "like",
                                        1, cost)
    /\ user_interactions = <<>>
    /\ screenshots = {}
    /\ user_data = [u \in TelegramIds |-> NoData]
    /\ conversations = [u \in TelegramIds |-> Idle]
    /\ buttons = [u \in TelegramIds |-> NoButtons]
    /\ coin_log = <<>>
    /\ flow_requests = {}
    /\ refused = {}
    /\ tasks = <<>>
    /\ purchase_forms = <<>>
    /\ tickets = <<>>
    /\ call = NoCall

NextCallback ==
    \/ \E u \in TelegramIds, i \in 1..MaxRequests : handle_do_action(u, i)
    \/ \E u \in TelegramIds, i \in 1..MaxRequests : confirm_action_callback(u, i)
    \/ \E u \in TelegramIds, i \in 1..MaxRequests :
          Sessions < MaxSessions /\ handle_upload_screenshot(u, i)
    \/ \E u \in TelegramIds : handle_screenshot_upload(u)

SpecCallback == InitCallback /\ [][NextCallback]_vars

----------------------------------------------------------------------------
(* The purchase form and /ticket *)

\* entry point of purchase_conv_handler: the "start_purchase_form" button of
\* the menu handle_buy_coins sends to whoever asks for it
start_purchase_form(u) ==
    /\ conversations[u].purchase = END
    /\ conversations' =
         [conversations EXCEPT ![u].purchase = WAITING_PURCHASE_NAME]
    /\ UNCHANGED <<users, interactions, user_interactions, screenshots,
                   user_data, buttons, coin_log, flow_requests, refused, tasks,
                   purchase_forms, call, tickets>>

\* a text message reaches purchase_conv_handler, the first ConversationHandler
\* of main(), whenever it holds a state for the sender
purchase_name_handler(u, text) ==
    /\ conversations[u].purchase = WAITING_PURCHASE_NAME
    /\ user_data' = [user_data EXCEPT ![u].purchase_name = text]
    /\ conversations' =
         [conversations EXCEPT ![u].purchase = WAITING_PURCHASE_PHONE]
    /\ UNCHANGED <<users, interactions, user_interactions, screenshots,
                   buttons, coin_log, flow_requests, refused, tasks,
                   purchase_forms, call, tickets>>

purchase_phone_handler(u, text) ==
    /\ conversations[u].purchase = WAITING_PURCHASE_PHONE
    /\ user_data' = [user_data EXCEPT ![u].purchase_phone = text]
    /\ conversations' =
         [conversations EXCEPT ![u].purchase = WAITING_PURCHASE_COINS]
    /\ UNCHANGED <<users, interactions, user_interactions, screenshots,
                   buttons, coin_log, flow_requests, refused, tasks,
                   purchase_forms, call, tickets>>

purchase_coins_handler(u, text) ==
    /\ conversations[u].purchase = WAITING_PURCHASE_COINS
    /\ IF \/ ~IsIntText(text)
          \/ ParseInt(text) <= 0
          \* user_data['purchase_name'] and user_data['purchase_phone'] raise
          \* KeyError before the INSERT: the state is kept
          \/ user_data[u].purchase_name = NULL
          \/ user_data[u].purchase_phone = NULL
       THEN UNCHANGED <<purchase_forms, user_data, conversations>>
       ELSE /\ Len(purchase_forms) < MaxForms
            /\ purchase_forms' =
                 create_purchase_form(purchase_forms, u,
                     user_data[u].purchase_name, user_data[u].purchase_phone,
                     ParseInt(text), price(ParseInt(text)))
            /\ user_data' = clear(user_data, u)
            /\ conversations' = [conversations EXCEPT ![u].purchase = END]
    /\ UNCHANGED <<users, interactions, user_interactions, screenshots,
                   buttons, coin_log, flow_requests, refused, tasks, call,
                   tickets>>

\* /ticket <words>: a CommandHandler main() adds before the conversations
ticket_command(u, args) ==
    /\ IF args = <<>>
       THEN UNCHANGED <<users, tickets>>
       ELSE /\ Len(tickets) < MaxTickets
            /\ users' = create_user(users, u)
            /\ tickets' = create_ticket(tickets, u, join(args))
    /\ UNCHANGED <<interactions, user_interactions, screenshots, user_data,
                   conversations, buttons, coin_log, flow_requests, refused,
                   tasks, purchase_forms, call>>

----------------------------------------------------------------------------
(* SpecFlow: one sender in the three conversations of main(), which each   *)
(* keep their own state for the sender and share context.user_data.        *)

\* a state Spec reaches: ADMIN_IDS[0] and user 2 have sent /start, user 2
\* has sent /profilo anna; and either no request exists, or ADMIN_IDS[0] has
\* sent /admin_richiesta <link> follow 1 5 and user 2 has chosen the request
\* in the list and been sent its upload_screenshot_1 button
InitFlow ==
    /\ users = [x \in {ADMIN_IDS[1], 2} |->
                  IF x = 2 THEN [NewUser EXCEPT !.instagram_username = "anna"]
                  ELSE NewUser]
    /\ \E sent \in BOOLEAN :
          /\ interactions =
               IF sent
               THEN create_interaction_request(<<>>, ADMIN_IDS[1], GoodLink,
                        "follow", 1, SCREENSHOT_THRESHOLD)
               ELSE <<>>
          /\ buttons = [u \in TelegramIds |->
                          IF sent /\ u = 2
                          THEN [NoButtons EXCEPT !.upload_screenshot = {1}]
                          ELSE NoButtons]
    /\ user_interactions = <<>>
    /\ screenshots = {}
    /\ user_data = [u \in TelegramIds |-> NoData]
    /\ conversations = [u \in TelegramIds |-> Idle]
    /\ coin_log = <<>>
    /\ flow_requests = {}
    /\ refused = {}
    /\ tasks = <<>>
    /\ purchase_forms = <<>>
    /\ tickets = <<>>
    /\ call = NoCall

\* the registered ids that are no admin
Senders == { u \in DOMAIN users : ~is_admin(u) }

NextFlow ==
    \/ \E u \in Senders, k \in PressedKeys : handle_interaction_type_selection(u, k)
    \/ \E u \in Senders, link \in LinkTexts : handle_post_link(u, link)
    \/ \E u \in Senders, text \in NumberTexts : handle_quantity(u, text)
    \/ \E u \in Senders, i \in 1..MaxRequests : handle_upload_screenshot(u, i)
    \/ \E u \in Senders : handle_screenshot_upload(u)
    \/ \E u \in Senders : start_purchase_form(u)
    \/ \E u \in Senders, text \in PurchaseNames : purchase_name_handler(u, text)
    \/ \E u \in Senders, text \in PurchasePhones : purchase_phone_handler(u, text)
    \/ \E u \in Senders, text \in NumberTexts : purchase_coins_handler(u, text)
    \/ \E u \in Senders : cancel_conversation(u)
    \/ \E u \in Senders, args \in TicketArgs : ticket_command(u, args)

SpecFlow == InitFlow /\ [][NextFlow]_vars

----------------------------------------------------------------------------
(* SpecPair: two senders in conversations at the same time; the states of  *)
(* a ConversationHandler and context.user_data are kept by sender.         *)

\* a state Spec reaches: 2 and 3 have sent /start and /profilo
InitPair ==
    /\ users = [x \in {2, 3} |->
                  [NewUser EXCEPT !.instagram_username = "anna"]]
    /\ interactions = <<>>
    /\ user_interactions = <<>>
    /\ screenshots = {}
    /\ user_data = [u \in TelegramIds |-> NoData]
    /\ conversations = [u \in TelegramIds |-> Idle]
    /\ buttons = [u \in TelegramIds |-> NoButtons]
    /\ coin_log = <<>>
    /\ flow_requests = {}
    /\ refused = {}
    /\ tasks = <<>>
    /\ purchase_forms = <<>>
    /\ tickets = <<>>
    /\ call = NoCall

NextPair ==
    \/ \E u \in Senders, k \in PressedKeys : handle_interaction_type_selection(u, k)
    \/ \E u \in Senders, link \in LinkTexts : handle_post_link(u, link)
    \/ \E u \in Senders, text \in NumberTexts : handle_quantity(u, text)
    \/ \E u \in Senders : start_purchase_form(u)
    \/ \E u \in Senders, text \in PurchaseNames : purchase_name_handler(u, text)
    \/ \E u \in Senders : cancel_conversation(u)

SpecPair == InitPair /\ [][NextPair]_vars

----------------------------------------------------------------------------
(* SpecMain: the updates as main() routes them. main() adds                *)
(* CallbackQueryHandler(button_callback), which has no pattern, before the *)
(* three ConversationHandlers and in their group: it takes every callback  *)
(* query, and the entry points of the conversations see none.              *)

\* button_callback: the handler it picks by the data runs, and what that
\* handler returns is dropped; data that fits no branch does nothing
button_callback(u, data, rest) ==
    \/ data = "start_earning" /\ handle_start_earning(u)
    \/ data = "receive_interactions" /\ handle_receive_interactions(u)
    \/ data = "do_action" /\ handle_do_action(u, rest)
    \/ data = "confirm_action" /\ handle_confirm_action(u, rest)
    \/ /\ data = "interaction_type"
       /\ sends_interaction_types(users, u)
       /\ user_data' = [user_data EXCEPT ![u].interaction_type = SplitData(rest)[3]]
       /\ UNCHANGED <<users, interactions, user_interactions, screenshots,
                      conversations, buttons, coin_log, flow_requests, refused,
                      tasks, purchase_forms, call, tickets>>
    \/ /\ data = "upload_screenshot"
       /\ rest \in buttons[u].upload_screenshot
       /\ user_data' = [user_data EXCEPT ![u].pending_interaction_id = rest]
       /\ UNCHANGED <<users, interactions, user_interactions, screenshots,
                      conversations, buttons, coin_log, flow_requests, refused,
                      tasks, purchase_forms, call, tickets>>
    \/ /\ data \in {"start_purchase_form", "buy_coins", "main_menu"}
       /\ UNCHANGED vars

\* a text or a photo of a sender for whom no ConversationHandler holds a
\* state: the entry points take callback queries only, no handler runs
message_outside_conversation(u) ==
    /\ conversations[u] = Idle
    /\ ~is_admin(u)
    /\ UNCHANGED vars

NextMain ==
    \/ \E u \in TelegramIds : start_command(u)
    \/ \E u \in TelegramIds, username \in Usernames : profile_command(u, username)
    \/ \E a \in TelegramIds, args \in AdminRequestArgs :
          admin_request_command(a, args)
    \/ \E u \in TelegramIds,
          data \in {"start_earning", "receive_interactions",
                    "start_purchase_form", "buy_coins", "main_menu"} :
          button_callback(u, data, NULL)
    \/ \E u \in TelegramIds, data \in {"do_action", "confirm_action", "upload_screenshot"},
          i \in 1..MaxRequests :
          button_callback(u, data, i)
    \/ \E u \in TelegramIds, k \in PressedKeys :
          button_callback(u, "interaction_type", k)
    \/ \E u \in TelegramIds : message_outside_conversation(u)

SpecMain == Init /\ [][NextMain]_vars

----------------------------------------------------------------------------
(* SpecPurchase: the first purchase form, of every amount up to MaxCoins.  *)

NextPurchase ==
    \/ \E u \in Senders : start_purchase_form(u)
    \/ \E u \in Senders, text \in PurchaseNames : purchase_name_handler(u, text)
    \/ \E u \in Senders, text \in PurchasePhones : purchase_phone_handler(u, text)
    \/ \E u \in Senders, text \in CoinTexts :
          purchase_forms = <<>> /\ purchase_coins_handler(u, text)
    \/ \E u \in Senders : cancel_conversation(u)

SpecPurchase == InitFlow /\ [][NextPurchase]_vars

----------------------------------------------------------------------------
(* SpecUpload: handle_screenshot_upload in its two committed parts, the    *)
(* INSERT into screenshots and the call of complete_interaction; the       *)
(* handler may stop between them.                                          *)

\* a state Spec reaches: the three users registered, one /admin_richiesta
\* row "follow 1 5", and its upload_screenshot_1 button sent to 2 and to 3
InitUpload ==
    /\ users = [x \in TelegramIds |-> NewUser]
    /\ interactions =
         create_interaction_request(<<>>, ADMIN_IDS[1], GoodLink, "follow", 1,
                                    SCREENSHOT_THRESHOLD)
    /\ user_interactions = <<>>
    /\ screenshots = {}
    /\ user_data = [u \in TelegramIds |-> NoData]
    /\ conversations = [u \in TelegramIds |-> Idle]
    /\ buttons = [u \in TelegramIds |->
                    IF is_admin(u) THEN NoButtons
                    ELSE [NoButtons EXCEPT !.upload_screenshot = {1}]]
    /\ coin_log = <<>>
    /\ flow_requests = {}
    /\ refused = {}
    /\ tasks = <<>>
    /\ purchase_forms = <<>>
    /\ tickets = <<>>
    /\ call = NoCall

\* a handler of u is between its two parts
Uploading(u) ==
    \E t \in DOMAIN tasks : tasks[t].user_id = u /\ tasks[t].pc = "complete"

\* handle_screenshot_upload up to the commit of the INSERT into screenshots
store_screenshot(u) ==
    /\ conversations[u].screenshot = WAITING_SCREENSHOT
    /\ ~Uploading(u)
    /\ LET interaction_id == user_data[u].pending_interaction_id
           screenshot_id == new_screenshot_id(u, interaction_id)
       IN  IF interaction_id = 0
           THEN /\ user_data' = [user_data EXCEPT ![u] = NoData]
                /\ conversations' = [conversations EXCEPT ![u].screenshot = END]
                /\ UNCHANGED <<screenshots, tasks>>
           ELSE /\ Cardinality(screenshots) < MaxScreenshots
                /\ Len(tasks) < MaxTasks
                /\ screenshots' = screenshots \cup
                       { screenshot_row(screenshot_id, u, interaction_id) }
                /\ tasks' = Append(tasks,
                       [ op |-> "handle_screenshot_upload", pc |-> "complete",
                         user_id |-> u, interaction_id |-> interaction_id,
                         screenshot_id |-> screenshot_id ])
                /\ UNCHANGED <<user_data, conversations>>
    /\ UNCHANGED <<users, interactions, user_interactions, buttons, coin_log,
                   flow_requests, refused, purchase_forms, call, tickets>>

\* handle_screenshot_upload from the SELECT of cost_per_action to its return
complete_upload(t) ==
    /\ tasks[t].op = "handle_screenshot_upload"
    /\ tasks[t].pc = "complete"
    /\ LET u == tasks[t].user_id
           interaction_id == tasks[t].interaction_id
       IN  /\ IF interaction_id \notin DOMAIN interactions
              THEN UNCHANGED <<user_interactions, interactions, users, refused>>
              ELSE complete_interaction(u, interaction_id,
                       calculate_earnings(
                           interactions[interaction_id].cost_per_action,
                           "primary"),
                       "primary", tasks[t].screenshot_id)
           /\ user_data' = [user_data EXCEPT ![u] = NoData]
           /\ conversations' = [conversations EXCEPT ![u].screenshot = END]
    /\ tasks' = [tasks EXCEPT ![t].pc = "returned"]
    /\ UNCHANGED <<screenshots, buttons, coin_log, flow_requests,
                   purchase_forms, call, tickets>>

\* the handler stops after the INSERT: its process dies or a statement raises
kill_upload(t) ==
    /\ tasks[t].op = "handle_screenshot_upload"
    /\ tasks[t].pc = "complete"
    /\ tasks' = [tasks EXCEPT ![t].pc = "killed"]
    /\ UNCHANGED <<users, interactions, user_interactions, screenshots,
                   user_data, conversations, buttons, coin_log, flow_requests,
                   refused, purchase_forms, call, tickets>>

\* a message that is no photo and that no handler of main() takes: the
\* state WAITING_SCREENSHOT has a handler for filters.PHOTO only
other_message(u) ==
    /\ conversations[u].purchase = END
    /\ conversations[u].interaction = END
    /\ UNCHANGED vars

NextUpload ==
    \/ \E u \in TelegramIds, i \in 1..MaxRequests : handle_upload_screenshot(u, i)
    \/ \E u \in TelegramIds : store_screenshot(u)
    \/ \E t \in DOMAIN tasks : complete_upload(t)
    \/ \E t \in DOMAIN tasks : kill_upload(t)
    \/ \E u \in TelegramIds : other_message(u)
    \/ \E u \in TelegramIds : start_purchase_form(u)
    \/ \E u \in TelegramIds, text \in PurchaseNames : purchase_name_handler(u, text)
    \/ \E u \in TelegramIds, text \in PurchasePhones : purchase_phone_handler(u, text)

SpecUpload == InitUpload /\ [][NextUpload]_vars

----------------------------------------------------------------------------
(* Properties of the ledger under Spec *)

\* the user_interactions rows of one (user_id, interaction_id) pair
Completions(UI, user_id, interaction_id) ==
    { k \in DOMAIN UI :
        UI[k].user_id = user_id /\ UI[k].interaction_id = interaction_id }

\* the sum of f over the set S of its arguments
RECURSIVE SumOver(_, _)
SumOver(f, S) ==
    IF S = {} THEN 0
    ELSE LET x == CHOOSE y \in S : TRUE
         IN  f[x] + SumOver(f, S \ {x})

\* the earnings of the user_interactions rows of u
Earned(UI, u) ==
    SumOver([k \in DOMAIN UI |-> UI[k].earnings],
            { k \in DOMAIN UI : UI[k].user_id = u })

\* the total_cost of the rows u created through handle_quantity
FlowCost(I, u) ==
    SumOver([i \in DOMAIN I |-> I[i].total_cost],
            { i \in DOMAIN I : i \in flow_requests /\ I[i].requester_id = u })

\* the /admin_coin amounts applied to u
Adjusted(u) ==
    SumOver([k \in DOMAIN coin_log |-> coin_log[k].amount],
            { k \in DOMAIN coin_log : coin_log[k].user_id = u })

\* C1: whatever sequence of confirmations and screenshot uploads is handled,
\* one at a time, user_interactions holds at most one row for each pair of
\* a user and an interaction.
ExactlyOnce ==
    \A k1, k2 \in DOMAIN user_interactions :
        ( /\ user_interactions[k1].user_id = user_interactions[k2].user_id
          /\ user_interactions[k1].interaction_id
                = user_interactions[k2].interaction_id ) => k1 = k2

\* a second attempt on a completed pair has been made and answered
\* "already completed", the pair keeping its one row
RepeatedAttemptRefused ==
    \E p \in refused :
        Cardinality(Completions(user_interactions, p[1], p[2])) = 1

\* C3: an interaction is closed in exactly the states where its
\* completed_count has reached its quantity.
ClosedExactlyWhenFull ==
    \A i \in DOMAIN interactions :
        (interactions[i].status = "closed")
            <=> (interactions[i].completed_count >= interactions[i].quantity)

\* C4: every interaction keeps 0 <= completed_count <= quantity, also when
\* several users were shown it with one slot left and each confirms.
CountWithinQuantity ==
    \A i \in DOMAIN interactions :
        /\ 0 <= interactions[i].completed_count
        /\ interactions[i].completed_count <= interactions[i].quantity

\* C5: a quantity whose total cost equals the sender's balance creates the
\* request and leaves the balance at 0; one whose total cost is above the
\* balance ends the flow with the users, interactions and user_interactions
\* tables unchanged.
CreateBoundary ==
    [][\A u \in { v \in TelegramIds :
                      conversations[v].interaction = WAITING_QUANTITY },
          text \in NumberTexts :
          ( /\ IsIntText(text)
            /\ ParseInt(text) > 0
            /\ u \in DOMAIN users
            /\ user_data[u].interaction_type \in DOMAIN ACTION_COSTS
            /\ handle_quantity(u, text) )
          => LET total == ParseInt(text)
                            * ACTION_COSTS[user_data[u].interaction_type]
             IN  /\ users[u].coin_balance = total =>
                      /\ Len(interactions') = Len(interactions) + 1
                      /\ interactions'[Len(interactions')].requester_id = u
                      /\ interactions'[Len(interactions')].total_cost = total
                      /\ interactions'[Len(interactions')].status = "active"
                      /\ users'[u].coin_balance = 0
                 /\ users[u].coin_balance < total =>
                      /\ users' = users
                      /\ interactions' = interactions
                      /\ user_interactions' = user_interactions
                      /\ conversations'[u].interaction = END
      ]_vars

\* a request whose total cost was the whole starting balance of its sender
\* has been created, and the sender's balance is 0
BalanceSpentExactly ==
    \E i \in flow_requests :
        /\ interactions[i].total_cost = DEFAULT_COIN_BALANCE
        /\ users[interactions[i].requester_id].coin_balance = 0
        /\ coin_log = <<>>
        /\ user_interactions = <<>>

Conservation ==
    \A u \in DOMAIN users :
        users[u].coin_balance =
            DEFAULT_COIN_BALANCE + Earned(user_interactions, u)
                - FlowCost(interactions, u) + Adjusted(u)

\* one user has paid for a request, another has earned on it, and an
\* /admin_coin adjustment has been applied
EarnedSpentAdjusted ==
    /\ \E u \in DOMAIN users : FlowCost(interactions, u) > 0
    /\ \E u \in DOMAIN users : Earned(user_interactions, u) > 0
    /\ coin_log # <<>>

\* C12: a confirmation or a screenshot upload by a user that already has
\* a user_interactions row for the interaction is answered "already
\* completed" and leaves the users, interactions and user_interactions
\* tables as they were.
DuplicateRejected ==
    [][\A u \in TelegramIds, i \in DOMAIN interactions :
          ( /\ Completions(user_interactions, u, i) # {}
            /\ \/ handle_confirm_action(u, i)
               \/ ( /\ user_data[u].pending_interaction_id = i
                    /\ handle_screenshot_upload(u) ) )
          => /\ <<u, i>> \in refused'
             /\ users' = users
             /\ interactions' = interactions
             /\ user_interactions' = user_interactions
      ]_vars

\* a second screenshot for a completed pair has been stored and answered
\* "already completed": no user_interactions row refers to it
UploadRefused ==
    \E p \in refused :
        \E sh \in screenshots :
            /\ sh.user_id = p[1]
            /\ sh.interaction_id = p[2]
            /\ \A k \in DOMAIN user_interactions :
                  user_interactions[k].screenshot_id # sh.id

\* C14: the list get_available_interactions(user_id, limit) returns has at
\* most limit rows, each active, with completed_count < quantity and a
\* requester other than user_id; handle_start_earning, from the list on,
\* changes no balance, no interactions row and no user_interactions row.
ListOpenSound ==
    /\ [](\A u \in TelegramIds, limit \in (0..MaxLimit) \cup {5} :
            \A S \in get_available_interactions(users, interactions,
                                                u, limit) :
               /\ Cardinality(S) <= limit
               /\ \A i \in S :
                     /\ interactions[i].status = "active"
                     /\ interactions[i].completed_count
                           < interactions[i].quantity
                     /\ interactions[i].requester_id # u)
    /\ [][\A u \in TelegramIds :
             handle_start_earning(u) =>
                /\ \A x \in DOMAIN users : users'[x] = users[x]
                /\ interactions' = interactions
                /\ user_interactions' = user_interactions
         ]_vars

\* a request with a free slot is in the list of another user and not in
\* the list of its requester, and a list of limit 0 is empty
ListedForOthersOnly ==
    \E i \in DOMAIN interactions :
        \E u \in DOMAIN users :
            /\ get_available_interactions(users, interactions, u, 5) = {{i}}
            /\ get_available_interactions(users, interactions, u, 0) = {{}}
            /\ get_available_interactions(users, interactions,
                   interactions[i].requester_id, 5) = {{}}
            /\ interactions[i].completed_count > 0

\* C22: /start of an id with no users row makes the row with coin_balance
\* 10 and no handle; /start of an id that has a row leaves the row, its
\* balance and its handles, as it was, create_user returning False for it;
\* no other row changes either way.
CreateAccountOnce ==
    [][\A u \in TelegramIds :
          start_command(u)
          => /\ u \notin DOMAIN users
                => /\ create_user_returns(users, u)
                   /\ DOMAIN users' = DOMAIN users \cup {u}
                   /\ users'[u].coin_balance = 10
                   /\ users'[u].instagram_username = NULL
             /\ u \in DOMAIN users
                => /\ ~create_user_returns(users, u)
                   /\ DOMAIN users' = DOMAIN users
                   /\ users'[u] = users[u]
             /\ \A x \in DOMAIN users \ {u} : users'[x] = users[x]
      ]_vars

\* an id with a handle and a balance other than the starting grant sends
\* /start again, and nothing changes
RestartKeepsBalance ==
    \E u \in DOMAIN users :
        /\ users[u].coin_balance # DEFAULT_COIN_BALANCE
        /\ users[u].instagram_username # NULL
        /\ ENABLED (start_command(u) /\ UNCHANGED vars)

----------------------------------------------------------------------------
(* Properties of the ledger under SpecTx *)

\* the tasks of one handler for one sender
TasksOf(op, u) ==
    { t \in DOMAIN tasks : tasks[t].op = op /\ tasks[t].user_id = u }

\* what the handle_quantity tasks of u have debited
Debited(u) ==
    SumOver([t \in DOMAIN tasks |-> tasks[t].amount],
            { t \in TasksOf("handle_quantity", u) : tasks[t].debited })

\* every committed completion shows its row, its count and its credit:
\* completed_count is the number of rows of the interaction, and every
\* balance is the grant plus the earnings of the user's rows minus what its
\* handle_quantity tasks debited
CompletionWritesTogether ==
    /\ \A i \in DOMAIN interactions :
          interactions[i].completed_count =
              Cardinality({ k \in DOMAIN user_interactions :
                              user_interactions[k].interaction_id = i })
    /\ \A u \in DOMAIN users :
          users[u].coin_balance =
              DEFAULT_COIN_BALANCE + Earned(user_interactions, u) - Debited(u)

\* C2: of the complete_interaction calls for one pair that run as
\* concurrent tasks, at most one returns True, and the pair gets at most
\* one user_interactions row, so one credit and one count.
ConcurrentExactlyOnce ==
    \A u \in TelegramIds, i \in DOMAIN interactions :
        /\ Cardinality(Completions(user_interactions, u, i)) <= 1
        /\ Cardinality({ t \in TasksOf("complete_interaction", u) :
                            /\ tasks[t].interaction_id = i
                            /\ tasks[t].result = "True" }) <= 1

\* C7: a handle_quantity task that has stopped, by its return, by an
\* exception or by a kill, has debited its sender exactly when the row of
\* its request exists.
CreationAtomic ==
    \A t \in DOMAIN tasks :
        (tasks[t].op = "handle_quantity" /\ Stopped(tasks[t])) =>
            ( tasks[t].debited <=>
                ( /\ tasks[t].interaction_id \in DOMAIN interactions
                  /\ interactions[tasks[t].interaction_id].requester_id
                        = tasks[t].user_id
                  /\ interactions[tasks[t].interaction_id].total_cost
                        = tasks[t].amount ) )

\* C8: whatever the interleaving of the handle_quantity tasks, no balance
\* is negative, and the requests one sender creates cost together no more
\* than the grant and the earnings it has.
NoOverdraft ==
    \A u \in DOMAIN users :
        /\ users[u].coin_balance >= 0
        /\ FlowCost(interactions, u)
              <= DEFAULT_COIN_BALANCE + Earned(user_interactions, u)

\* C9: the row, the count, the credit and the closing of a completion are
\* in the store together: in every state, also after a kill, the committed
\* rows, counts and balances agree, and an interaction whose rows have
\* reached its quantity is closed.
CompletionAtomic ==
    /\ CompletionWritesTogether
    /\ \A i \in DOMAIN interactions :
          Cardinality({ k \in DOMAIN user_interactions :
                          user_interactions[k].interaction_id = i })
              >= interactions[i].quantity
          => interactions[i].status = "closed"

----------------------------------------------------------------------------
(* Properties of the earnings under SpecCalc *)

\* e is the integer part of cost * rate, the rate being 1 / parts
IsFloorOfShare(e, cost, parts) == parts * e <= cost /\ cost < parts * (e + 1)

\* C11: calculate_earnings returns floor(cost * 0.25) for the primary
\* profile and floor(cost * 0.125) for a secondary one, on every cost from 0
\* up; the earnings a user_interactions row stores are that value for the
\* row's profile type and the cost of its interaction, and are what the
\* user's balance was credited.
EarningsFormula ==
    /\ (call.function = "calculate_earnings" /\ call.returned) =>
          IsFloorOfShare(call.result, call.cost,
                         IF call.profile_type = "primary" THEN 4 ELSE 8)
    /\ \A k \in DOMAIN user_interactions :
          IsFloorOfShare(user_interactions[k].earnings,
              interactions[user_interactions[k].interaction_id].cost_per_action,
              IF user_interactions[k].profile_type = "primary" THEN 4 ELSE 8)
    /\ \A u \in DOMAIN users :
          users[u].coin_balance
              = DEFAULT_COIN_BALANCE + Earned(user_interactions, u)

\* at cost 5 the call for a secondary profile has returned 0, and a
\* completion of the interaction has stored and credited 1
FiveEarnsOneOrNothing ==
    /\ call.function = "calculate_earnings"
    /\ call.cost = 5
    /\ call.profile_type # "primary"
    /\ call.returned
    /\ call.result = 0
    /\ \E k \in DOMAIN user_interactions :
          /\ user_interactions[k].earnings = 1
          /\ users[user_interactions[k].user_id].coin_balance
                = DEFAULT_COIN_BALANCE + 1

----------------------------------------------------------------------------
(* Properties of the proof of completion under SpecCallback *)

\* C13: every user_interactions row of an interaction whose cost_per_action
\* is SCREENSHOT_THRESHOLD or more carries a screenshot_id: a completion of
\* such an interaction without a screenshot is refused.
ProofCarried ==
    \A k \in DOMAIN user_interactions :
        interactions[user_interactions[k].interaction_id].cost_per_action
              >= SCREENSHOT_THRESHOLD
           => user_interactions[k].screenshot_id # <<>>

\* C35: no row of user_interactions names a user and a request that user
\* has created.
NoSelfCompletion ==
    \A k \in DOMAIN user_interactions :
        user_interactions[k].interaction_id \in DOMAIN interactions
        => interactions[user_interactions[k].interaction_id].requester_id
              # user_interactions[k].user_id

\* C37: the requester_id of every row of interactions and the user_id of
\* every row of user_interactions is the telegram_id of a row of users.
ReferencesExist ==
    /\ \A i \in DOMAIN interactions :
          has_user(users, interactions[i].requester_id)
    /\ \A k \in DOMAIN user_interactions :
          has_user(users, user_interactions[k].user_id)

\* C38: every row of screenshots is the screenshot_id of exactly one row of
\* user_interactions, of the same user and the same request.
ScreenshotsLinked ==
    \A sh \in screenshots :
        Cardinality({ k \in DOMAIN user_interactions :
                        /\ user_interactions[k].screenshot_id = sh.id
                        /\ user_interactions[k].user_id = sh.user_id
                        /\ user_interactions[k].interaction_id
                              = sh.interaction_id }) = 1

----------------------------------------------------------------------------
(* Properties of the conversations under SpecFlow *)

\* C15: a sender is in at most one of the three conversations (purchase
\* form, interaction request, screenshot upload) at any time.
OneFlowInFlight ==
    \A u \in TelegramIds :
        Cardinality({ c \in {"purchase", "interaction", "screenshot"} :
                        conversations[u][c] # END }) <= 1

\* C34: a sender at WAITING_QUANTITY has an interaction_type and a
\* post_link in user_data, a sender at WAITING_PURCHASE_COINS a
\* purchase_name and a purchase_phone, and a sender at WAITING_SCREENSHOT a
\* pending_interaction_id.
FlowDataPresent ==
    \A u \in TelegramIds :
        /\ conversations[u].interaction = WAITING_QUANTITY
           => /\ user_data[u].interaction_type # NULL
              /\ user_data[u].post_link # <<>>
        /\ conversations[u].purchase = WAITING_PURCHASE_COINS
           => /\ user_data[u].purchase_name # NULL
              /\ user_data[u].purchase_phone # NULL
        /\ conversations[u].screenshot = WAITING_SCREENSHOT
           => user_data[u].pending_interaction_id # 0

\* C16: a link that is no Instagram post link sent to handle_post_link, and
\* a text that is no positive integer sent to handle_quantity or to
\* purchase_coins_handler, leave the sender's conversation states, the
\* user_data and every table as they were.
ValidationKeepsState ==
    [][\A u \in TelegramIds :
          ( \/ handle_post_link(u, BadLink)
            \/ \E text \in { <<"a">>, <<>>, <<"0">>, <<"-", "1">> } :
                  \/ handle_quantity(u, text)
                  \/ purchase_coins_handler(u, text) )
          => /\ conversations' = conversations
             /\ user_data' = user_data
             /\ tables' = tables
      ]_vars

\* the sender waits at WAITING_QUANTITY with a type and a link stored, and at
\* WAITING_PURCHASE_COINS in another state: "0" and "-1" are answered there
\* and change nothing
RepromptedInPlace ==
    \E u \in TelegramIds :
        /\ user_data[u].interaction_type # NULL
        /\ user_data[u].post_link # <<>>
        /\ conversations[u].interaction = WAITING_QUANTITY
        /\ ENABLED (handle_quantity(u, <<"0">>) /\ UNCHANGED vars)
        /\ ENABLED (handle_quantity(u, <<"-", "1">>) /\ UNCHANGED vars)

\* C17: after /cancel the sender is in none of the three conversations and
\* the user_data of the sender is empty.
CancelEndsEveryFlow ==
    [][\A u \in TelegramIds :
          cancel_conversation(u)
          => /\ conversations'[u] = Idle
             /\ user_data'[u] = NoData
      ]_vars

\* C18: /cancel changes no table: users and balances, interactions,
\* user_interactions, screenshots, tickets and purchase_forms are the same
\* before and after, whatever the conversation state.
CancelKeepsStore ==
    [][\A u \in TelegramIds : cancel_conversation(u) => tables' = tables]_vars

\* /cancel is accepted in a state where every table but users has a row the
\* sender put there, or lost coins for, and a conversation is under way
CancelOverFullStore ==
    \E u \in TelegramIds :
        /\ ENABLED cancel_conversation(u)
        /\ \E sh \in screenshots : sh.user_id = u
        /\ \E k \in DOMAIN user_interactions : user_interactions[k].user_id = u
        /\ \E k \in DOMAIN purchase_forms : purchase_forms[k].user_id = u
        /\ \E k \in DOMAIN tickets : tickets[k].user_id = u
        /\ user_data[u] # NoData

KindStoredAsChosen ==
    [][\A u \in TelegramIds :
          /\ \A k \in PressedKeys :
                handle_interaction_type_selection(u, k)
                => user_data'[u].interaction_type = k
          /\ handle_post_link(u, GoodLink)
                => conversations'[u].interaction = WAITING_QUANTITY
          /\ \A i \in (DOMAIN interactions') \ (DOMAIN interactions) :
                /\ interactions'[i].action_type = user_data[u].interaction_type
                   \/ interactions'[i].requester_id # u
                /\ interactions'[i].cost_per_action
                      = ACTION_COSTS[interactions'[i].action_type]
      ]_vars

CompletedStillOffered ==
    /\ [](\A u \in DOMAIN users, i \in DOMAIN interactions :
             ( /\ Completions(user_interactions, u, i) # {}
               /\ interactions[i].requester_id # u
               /\ interactions[i].status = "active"
               /\ interactions[i].completed_count < interactions[i].quantity )
             => \E S \in get_available_interactions(users, interactions, u, 5) :
                   i \in S)
    /\ [][\A u \in TelegramIds, i \in DOMAIN interactions :
             ( /\ Completions(user_interactions, u, i) # {}
               /\ interactions[i].completed_count < interactions[i].quantity
               /\ \/ handle_confirm_action(u, i)
                  \/ ( /\ user_data[u].pending_interaction_id = i
                       /\ handle_screenshot_upload(u) ) )
             => /\ <<u, i>> \in refused'
                /\ <<users, interactions, user_interactions>>'
                      = <<users, interactions, user_interactions>>
         ]_vars

\* a user has completed a request of quantity 2 once, has tried again and
\* been refused, and the request is still the list the user is sent
OfferedAfterRefusal ==
    \E p \in refused :
        /\ Cardinality(Completions(user_interactions, p[1], p[2])) = 1
        /\ interactions[p[2]].completed_count = 1
        /\ interactions[p[2]].quantity = 2
        /\ get_available_interactions(users, interactions, p[1], 5) = {{p[2]}}

\* C27: the state of interaction_conv_handler for a sender moves only from
\* END to WAITING_POST_LINK by the entry point, from WAITING_POST_LINK to
\* WAITING_QUANTITY by handle_post_link, and to END by handle_quantity from
\* WAITING_QUANTITY or by /cancel; a row is added to interactions only by a
\* sender at WAITING_QUANTITY, with an Instagram post link, and ends the
\* conversation; a balance below the total cost ends the conversation with
\* user_data cleared and no row added.
FlowLinear ==
    [][\A u \in TelegramIds :
          LET before == conversations[u].interaction
              after == conversations'[u].interaction
          IN  /\ before # after
                 => \/ /\ before = END /\ after = WAITING_POST_LINK
                       /\ \E k \in PressedKeys :
                             handle_interaction_type_selection(u, k)
                    \/ /\ before = WAITING_POST_LINK /\ after = WAITING_QUANTITY
                       /\ \E link \in LinkTexts : handle_post_link(u, link)
                    \/ /\ before = WAITING_QUANTITY /\ after = END
                       /\ \E text \in NumberTexts : handle_quantity(u, text)
                    \/ /\ after = END
                       /\ cancel_conversation(u)
              /\ \A i \in (DOMAIN interactions') \ (DOMAIN interactions) :
                    interactions'[i].requester_id = u
                    => /\ before = WAITING_QUANTITY
                       /\ after = END
                       /\ interactions'[i].post_link = GoodLink
              /\ \A text \in NumberTexts :
                    ( /\ handle_quantity(u, text)
                      /\ IsIntText(text) /\ ParseInt(text) > 0
                      /\ user_data[u].interaction_type \in DOMAIN ACTION_COSTS
                      /\ users[u].coin_balance
                            < ParseInt(text)
                                * ACTION_COSTS[user_data[u].interaction_type] )
                    => /\ after = END
                       /\ user_data'[u] = NoData
                       /\ interactions' = interactions
                       /\ users' = users
      ]_vars

\* a sender has gone through the three steps: its request, with the link it
\* typed, is in the table, it has paid for it and it is in no conversation
RequestMadeAtEnd ==
    \E i \in flow_requests :
        /\ interactions[i].post_link = GoodLink
        /\ conversations[interactions[i].requester_id] = Idle
        /\ users[interactions[i].requester_id].coin_balance
              = DEFAULT_COIN_BALANCE - interactions[i].total_cost

----------------------------------------------------------------------------
(* Properties of the tables as a whole *)

\* C31: no step removes a row of users or of user_interactions or changes a
\* row of user_interactions, and no step removes a row of interactions or
\* changes its requester_id, post_link, action_type, quantity,
\* cost_per_action or total_cost.
RecordsPermanent ==
    [][/\ DOMAIN users \subseteq DOMAIN users'
       /\ \A k \in DOMAIN user_interactions :
             /\ k \in DOMAIN user_interactions'
             /\ user_interactions'[k] = user_interactions[k]
       /\ \A i \in DOMAIN interactions :
             /\ i \in DOMAIN interactions'
             /\ \A c \in {"requester_id", "post_link", "action_type",
                          "quantity", "cost_per_action", "total_cost"} :
                   interactions'[i][c] = interactions[i][c]
      ]_vars

\* two users have completed one request, and a balance has been adjusted by
\* the admin since
RecordsKeptThroughUpdates ==
    /\ Len(user_interactions) = 2
    /\ user_interactions[1].interaction_id = user_interactions[2].interaction_id
    /\ user_interactions[1].user_id # user_interactions[2].user_id
    /\ coin_log # <<>>

\* the rows of user_interactions that name request i
RowsOf(UI, i) == { k \in DOMAIN UI : UI[k].interaction_id = i }

\* C32: the completed_count of every request is the number of rows of
\* user_interactions that name it.
CountIsRows ==
    \A i \in DOMAIN interactions :
        interactions[i].completed_count
           = Cardinality(RowsOf(user_interactions, i))

\* a request has been completed by more users than its quantity, and each
\* completion has a row
CountedBeyondQuantity ==
    \E i \in DOMAIN interactions :
        /\ interactions[i].completed_count > interactions[i].quantity
        /\ Cardinality(RowsOf(user_interactions, i))
              = interactions[i].completed_count

----------------------------------------------------------------------------
(* SpecCrowd: one request and more participants than a quarter of its      *)
(* price pays for                                                          *)

\* the participants, none of them an admin
Participants == {2, 3, 5, 6, 7}

CrowdIds == {ADMIN_IDS[1]} \cup Participants

\* a state after /start of the admin and /admin_richiesta <link> like 1 4
InitCrowd ==
    /\ users = [x \in {ADMIN_IDS[1]} |-> NewUser]
    /\ interactions =
          create_interaction_request(<<>>, ADMIN_IDS[1], GoodLink, "like", 1, 4)
    /\ user_interactions = <<>>
    /\ screenshots = {}
    /\ user_data = [u \in CrowdIds |-> NoData]
    /\ conversations = [u \in CrowdIds |-> Idle]
    /\ buttons = [u \in CrowdIds |-> NoButtons]
    /\ coin_log = <<>>
    /\ flow_requests = {}
    /\ refused = {}
    /\ tasks = <<>>
    /\ purchase_forms = <<>>
    /\ tickets = <<>>
    /\ call = NoCall

NextCrowd ==
    \/ \E u \in Participants : handle_start_earning(u)
    \/ \E u \in Participants : handle_do_action(u, 1)
    \/ \E u \in Participants : handle_confirm_action(u, 1)

SpecCrowd == InitCrowd /\ [][NextCrowd]_vars

\* C33: for every request, the earnings of the rows of user_interactions
\* that name it add up to its total_cost at most.
EarningsWithinTotal ==
    \A i \in DOMAIN interactions :
        SumOver([k \in DOMAIN user_interactions |->
                    user_interactions[k].earnings],
                RowsOf(user_interactions, i))
           <= interactions[i].total_cost

----------------------------------------------------------------------------
(* SpecAdmin: /admin_richiesta with numbers of either sign                 *)

\* <quantita> and <coin> as the admin may type them: zero, a negative and a
\* positive number each
SignedRequestArgs ==
    { <<GoodLink, "like", q, c>> :
        q \in { <<"0">>, <<"-", "1">>, <<"1">> },
        c \in { <<"0">>, <<"-", "4">>, <<"4">> } }

NextAdmin ==
    \/ \E u \in TelegramIds : start_command(u)
    \/ \E a \in TelegramIds, args \in SignedRequestArgs :
          admin_request_command(a, args)
    \/ \E u \in TelegramIds, i \in 1..MaxRequests : handle_do_action(u, i)
    \/ \E u \in TelegramIds, i \in 1..MaxRequests : handle_confirm_action(u, i)

SpecAdmin == Init /\ [][NextAdmin]_vars

\* C36: every row of interactions has quantity >= 1 and cost_per_action
\* >= 1, and every row of user_interactions has earnings >= 0.
RequestsPositive ==
    /\ \A i \in DOMAIN interactions :
          /\ interactions[i].quantity >= 1
          /\ interactions[i].cost_per_action >= 1
    /\ \A k \in DOMAIN user_interactions :
          user_interactions[k].earnings >= 0

----------------------------------------------------------------------------
(* /profilo with the argument as the sender types it *)

\* an argument of /profilo, cut into its "@" characters and the run of other
\* characters it holds: no argument, a name, a name after "@", "@" alone
ProfileArgs == { <<>>, << <<"anna">> >>, << <<"@", "bea">> >>, << <<"@">> >> }

\* context.args[0].replace('@', '')
username_of(arg) ==
    LET rest == SelectSeq(arg, LAMBDA c : c # "@")
    IN  IF rest = <<>> THEN "" ELSE rest[1]

\* profile_command from its first statement to its return
profile_command_args(u, args) ==
    /\ users' =
         IF args = <<>> \/ profile_slot(users, u) = "none" THEN users
         ELSE set_user_profile(create_user(users, u), u,
                               username_of(args[1]), profile_slot(users, u))
    /\ UNCHANGED <<interactions, user_interactions, screenshots, user_data,
                   conversations, buttons, coin_log, flow_requests, refused, tasks, purchase_forms, call, tickets>>

NextProfile ==
    \/ \E u \in TelegramIds : start_command(u)
    \/ \E u \in TelegramIds, args \in ProfileArgs : profile_command_args(u, args)

SpecProfile == Init /\ [][NextProfile]_vars

\* C29: a /profilo with an argument fills the first empty one of the columns
\* instagram_username, secondary_profile_1, secondary_profile_2 and leaves
\* every column already filled as it was; with the three columns filled it
\* changes nothing; the verified flags of the secondary columns stay false.
SlotsFilledInOrder ==
    [][\A u \in TelegramIds, args \in ProfileArgs \ {<<>>} :
          profile_command_args(u, args)
          => /\ Profiles(users', u) = Min(3, Profiles(users, u) + 1)
             /\ u \in DOMAIN users
                => \A c \in {"instagram_username", "secondary_profile_1",
                             "secondary_profile_2"} :
                      users[u][c] # NULL => users'[u][c] = users[u][c]
             /\ ~users'[u].secondary_profile_1_verified
             /\ ~users'[u].secondary_profile_2_verified
      ]_vars

----------------------------------------------------------------------------
(* Properties of the purchase form under SpecPurchase *)

\* C20: purchase_coins_handler on the numeral of a positive amount appends
\* exactly one purchase_forms row, of the sender, with that amount and with
\* the price 5 euro up to 100 coins, 10 up to 250, 18 up to 500, 30 up to
\* 1000 and 3 cents a coin above; it changes no row of users.
PurchasePriced ==
    [][\A u \in TelegramIds, n \in 1..MaxCoins :
          purchase_coins_handler(u, IntText(n))
          => /\ purchase_forms' =
                  Append(purchase_forms,
                    [ user_id |-> u,
                      name |-> user_data[u].purchase_name,
                      phone |-> user_data[u].purchase_phone,
                      coins_requested |-> n,
                      amount_euro |->
                         CASE n <= 100 -> 500
                           [] n > 100 /\ n <= 250 -> 1000
                           [] n > 250 /\ n <= 500 -> 1800
                           [] n > 500 /\ n <= 1000 -> 3000
                           [] n > 1000 -> 3 * n,
                      status |-> "pending" ])
             /\ users' = users
      ]_vars

\* a form of 1001 coins is recorded at 30.03 euro, the name and the
\* telephone number typed before are on it, and its sender still has the
\* balance of a new user
LargeAmountPriced ==
    \E k \in DOMAIN purchase_forms :
        /\ purchase_forms[k].coins_requested = 1001
        /\ purchase_forms[k].amount_euro = 3003
        /\ purchase_forms[k].name \in PurchaseNames
        /\ purchase_forms[k].phone \in PurchasePhones
        /\ users[purchase_forms[k].user_id].coin_balance = DEFAULT_COIN_BALANCE

----------------------------------------------------------------------------
(* Properties of the screenshot upload under SpecUpload *)

\* C21: a message that is no photo leaves the sender at WAITING_SCREENSHOT;
\* a user_interactions row made by handle_screenshot_upload names a
\* screenshots row that was committed before the row was made, and every
\* such row names a screenshots row of the same user_id and interaction_id.
ProofStoredThenLinked ==
    /\ [](\A k \in DOMAIN user_interactions :
             user_interactions[k].screenshot_id # <<>>
             => \E sh \in screenshots :
                   /\ sh.id = user_interactions[k].screenshot_id
                   /\ sh.user_id = user_interactions[k].user_id
                   /\ sh.interaction_id = user_interactions[k].interaction_id)
    /\ [][/\ \A k \in (DOMAIN user_interactions') \ (DOMAIN user_interactions) :
                \E sh \in screenshots :
                   /\ sh.id = user_interactions'[k].screenshot_id
                   /\ sh.user_id = user_interactions'[k].user_id
                   /\ sh.interaction_id = user_interactions'[k].interaction_id
           /\ \A u \in TelegramIds :
                ( /\ conversations[u].screenshot = WAITING_SCREENSHOT
                  /\ \/ other_message(u)
                     \/ \E text \in PurchaseNames : purchase_name_handler(u, text)
                     \/ \E text \in PurchasePhones : purchase_phone_handler(u, text) )
                => conversations'[u].screenshot = WAITING_SCREENSHOT
      ]_vars

\* one screenshot is stored and named by a completion of its sender, and
\* another is stored while its handler has not yet called
\* complete_interaction
StoredBeforeCompletion ==
    /\ \E k \in DOMAIN user_interactions :
          user_interactions[k].screenshot_id # <<>>
    /\ \E t \in DOMAIN tasks :
          /\ tasks[t].pc = "complete"
          /\ \E sh \in screenshots : sh.id = tasks[t].screenshot_id
          /\ \A k \in DOMAIN user_interactions :
                user_interactions[k].screenshot_id # tasks[t].screenshot_id

----------------------------------------------------------------------------
(* Properties of the store under SpecContention *)

\* C23: a handler whose statement failed on a locked database has left the
\* store as it found it: a handle_quantity task that ended in
\* OperationalError has debited nothing.
ContentionLeavesStore ==
    \A t \in DOMAIN tasks :
        tasks[t].result = "OperationalError" => ~tasks[t].debited

----------------------------------------------------------------------------
(* Properties of the senders under SpecPair *)

\* C24: a step of a conversation of one sender - an entry point, a text, a
\* /cancel, the step that ends the conversation and clears user_data -
\* changes the conversation states and the user_data of no other id.
SendersIndependent ==
    [][\A u \in TelegramIds :
          ( \/ \E k \in PressedKeys : handle_interaction_type_selection(u, k)
            \/ \E link \in LinkTexts : handle_post_link(u, link)
            \/ \E text \in NumberTexts : handle_quantity(u, text)
            \/ start_purchase_form(u)
            \/ \E text \in PurchaseNames : purchase_name_handler(u, text)
            \/ cancel_conversation(u) )
          => \A v \in TelegramIds \ {u} :
                /\ conversations'[v] = conversations[v]
                /\ user_data'[v] = user_data[v]
      ]_vars

\* one sender has ended a conversation with a request made and user_data
\* cleared, while another still waits for a quantity with its type and its
\* link stored
OtherFlowSurvives ==
    \E u \in TelegramIds, v \in TelegramIds :
        /\ u # v
        /\ \E i \in flow_requests : interactions[i].requester_id = u
        /\ conversations[u] = Idle
        /\ user_data[u] = NoData
        /\ conversations[v].interaction = WAITING_QUANTITY
        /\ user_data[v].interaction_type # NULL
        /\ user_data[v].post_link # <<>>

----------------------------------------------------------------------------
(* Properties of the routing under SpecMain *)

\* C25: a callback query of an entry point, from a sender in no
\* conversation, puts the sender in the first state of its conversation:
\* interaction_type_<key> in WAITING_POST_LINK, start_purchase_form in
\* WAITING_PURCHASE_NAME, upload_screenshot_<id> in WAITING_SCREENSHOT.
EntryEntersFlow ==
    [][\A u \in TelegramIds :
          conversations[u] = Idle
          => /\ (\E k \in PressedKeys : button_callback(u, "interaction_type", k))
                => conversations'[u].interaction = WAITING_POST_LINK
             /\ button_callback(u, "start_purchase_form", NULL)
                => conversations'[u].purchase = WAITING_PURCHASE_NAME
             /\ (\E i \in 1..MaxRequests : button_callback(u, "upload_screenshot", i))
                => conversations'[u].screenshot = WAITING_SCREENSHOT
      ]_vars

=============================================================================
